---- MODULE Spec2Model ----
(***************************************************************************)
(* The student-services application: the club membership workflow          *)
(* (backend/routes/clubs.js), the elections page                           *)
(* (src/components/Pages/Elections.jsx, src/services/api.js) and the       *)
(* accounts (backend/models/User.js, backend/utils/createAdmin.js, the     *)
(* auth routes) and the clubs page (src/components/Pages/Clubs.jsx).       *)
(*                                                                         *)
(* Spec          every club handler runs to completion before the next.    *)
(* SpecSteps     approve / leave requests advance one database call at a   *)
(*               time, so that other requests see the store between calls; *)
(*               any awaited call may reject.                              *)
(* SpecContend   join, approve, reject and leave race, call by call.       *)
(* SpecNames     clubs created, renamed, deleted, listed and fetched.      *)
(* SpecElections the handlers of the elections page, one at a time.        *)
(* SpecVoteSteps votes advance one call at a time.                         *)
(* SpecUsers     server starts (seeding) and registrations.                *)
(* SpecLogin     logins of one account against the clock, one at a time.   *)
(* SpecLoginSteps logins advance one awaited call at a time.               *)
(* SpecProfiles  registrations, profile updates and password changes.      *)
(* SpecPages     the administrator's clubs page and elections page.        *)
(* SpecDelete    a club deleted while members are approved, call by call.  *)
(***************************************************************************)
EXTENDS Integers, Sequences, FiniteSets, TLC

\* ------------------------------------------------------------------ bounds
NumUsers == 2
MaxClubs == 2
MaxMemberIds == 2
NumReqs == 2
NumRegistrants == 4
MaxElections == 2
MaxCandidates == 2

UserIds == 1..NumUsers
ClubIds == 1..MaxClubs
MemberIds == 1..MaxMemberIds
ReqIds == 1..NumReqs
ElectionIds == 1..MaxElections
CandidateIds == 1..MaxCandidates

\* ------------------------------------------------------- values and helpers
ClubStatuses == {"pending_approval", "active", "inactive"}
MemberStatuses == {"pending", "approved", "rejected"}
ClubNames == {"chess", "Chess", "art", "chess(a)", "Chess(A)"}

\* An ObjectId and its hexadecimal string are different JavaScript values:
\* they are never === to each other.
ObjectId(n) == [t |-> "oid", n |-> n]
HexString(n) == [t |-> "str", n |-> n]
toString(oid) == [t |-> "str", n |-> oid.n]

\* req.user._id || req.user.id.  The protect middleware (middleware/auth.js)
\* sets req.user; the id it hands over is taken to be the user's id string,
\* the form the handlers compare member.user.toString() with.
reqUserId(u) == HexString(u)

\* Mongoose casts an id given as a string or as an ObjectId to the user it names.
castUser(id) == id.n

\* new RegExp(`^${name}$`, 'i') matches exactly the names equal ignoring case.
toLowerCase(name) ==
  CASE name = "Chess" -> "chess"
    [] name = "Chess(A)" -> "chess(a)"
    [] OTHER -> name

\* new RegExp(`^${name}$`, 'i'): the name is the source of the pattern, not a
\* literal.  The parentheses of a name are a group, so the pattern of
\* "chess(a)" matches "chessa" and no string with a parenthesis in it.
regExpMatches(name, text) ==
  IF name \in {"chess(a)", "Chess(A)"}
  THEN toLowerCase(text) = "chessa"
  ELSE toLowerCase(text) = toLowerCase(name)

NoClub == [exists |-> FALSE, name |-> "", status |-> "inactive", members |-> <<>>]

Range(s) == {s[i] : i \in 1..Len(s)}

\* The index Array.prototype.find / findIndex stop at: the first one whose
\* element passes the test (1-based; 0 stands for undefined / -1).
findIndex(hits) ==
  IF hits = {} THEN 0 ELSE CHOOSE i \in hits : \A j \in hits : i <= j

\* findMemberOfUser comparing the ObjectId itself with the id string.
findMemberOfUser_NoToString(members, rid) ==
  findIndex({i \in 1..Len(members) : members[i].user = rid})

\* club.members.find(member => member.user.toString() === (req.user._id || req.user.id))
findMemberOfUser(members, rid) ==
  findIndex({i \in 1..Len(members) : toString(members[i].user) = rid})

\* club.members.id(memberId)
membersId(members, memberId) ==
  findIndex({i \in 1..Len(members) : members[i].id = memberId})

\* club.members.splice(index, 1)
splice(members, index) ==
  [i \in 1..(Len(members) - 1) |-> IF i < index THEN members[i] ELSE members[i + 1]]

\* $push in the place of $addToSet.
addToSet_Push(arr, x) == Append(arr, x)

\* $addToSet on an array field
addToSet(arr, x) == IF x \in Range(arr) THEN arr ELSE Append(arr, x)

\* $pull on an array field
pull(arr, x) ==
  LET Keep(y) == y # x
  IN SelectSeq(arr, Keep)

Count(arr, x) == Cardinality({i \in 1..Len(arr) : arr[i] = x})

\* What a handler leaves behind: the store and the response.
Outcome(cl, jn, nm, code, msg) ==
  [clubs |-> cl, joined |-> jn, nextMid |-> nm, code |-> code, msg |-> msg]

\* ---------------------------------------------------------------- handlers
\* Each handler is a function of the store (clubs, joinedClubs, next fresh
\* member _id) and of the request; it yields the store it leaves and the
\* response it sends.

\* RequestJoin that pushes and saves the new membership before it looks for
\* an existing one.
RequestJoin_PushFirst(cl, jn, nm, c, u, body) ==
  IF ~body.fullName \/ ~body.department \/ ~body.year
  THEN Outcome(cl, jn, nm, 400, "Full name, department, and year are required")
  ELSE IF ~cl[c].exists
  THEN Outcome(cl, jn, nm, 404, "Club not found")
  ELSE IF cl[c].status # "active"
  THEN Outcome(cl, jn, nm, 400, "Cannot join inactive club")
  ELSE LET existingMember == findMemberOfUser(cl[c].members, reqUserId(u))
           pushed == Append(cl[c].members,
                       [id |-> nm, user |-> ObjectId(castUser(reqUserId(u))),
                        status |-> "pending"])
           saved == [cl EXCEPT ![c].members = pushed]
       IN IF existingMember # 0
          THEN IF cl[c].members[existingMember].status = "pending"
               THEN Outcome(saved, jn, nm + 1, 400, "Your join request is already pending approval")
               ELSE Outcome(saved, jn, nm + 1, 400, "You are already a member of this club")
          ELSE Outcome(saved, jn, nm + 1, 200,
                       "Join request submitted successfully. Waiting for admin approval.")

\* RequestJoin without the check of the club's status.
RequestJoin_NoStatusCheck(cl, jn, nm, c, u, body) ==
  IF ~body.fullName \/ ~body.department \/ ~body.year
  THEN Outcome(cl, jn, nm, 400, "Full name, department, and year are required")
  ELSE IF ~cl[c].exists
  THEN Outcome(cl, jn, nm, 404, "Club not found")
  ELSE LET existingMember == findMemberOfUser(cl[c].members, reqUserId(u))
       IN IF existingMember # 0
          THEN IF cl[c].members[existingMember].status = "pending"
               THEN Outcome(cl, jn, nm, 400, "Your join request is already pending approval")
               ELSE Outcome(cl, jn, nm, 400, "You are already a member of this club")
          ELSE LET pushed == Append(cl[c].members,
                               [id |-> nm, user |-> ObjectId(castUser(reqUserId(u))),
                                status |-> "pending"])
               IN Outcome([cl EXCEPT ![c].members = pushed], jn, nm + 1, 200,
                          "Join request submitted successfully. Waiting for admin approval.")

\* POST /:id/join
RequestJoin(cl, jn, nm, c, u, body) ==
  IF ~body.fullName \/ ~body.department \/ ~body.year
  THEN Outcome(cl, jn, nm, 400, "Full name, department, and year are required")
  ELSE IF ~cl[c].exists
  THEN Outcome(cl, jn, nm, 404, "Club not found")
  ELSE IF cl[c].status # "active"
  THEN Outcome(cl, jn, nm, 400, "Cannot join inactive club")
  ELSE LET existingMember == findMemberOfUser(cl[c].members, reqUserId(u))
       IN IF existingMember # 0
          THEN IF cl[c].members[existingMember].status = "pending"
               THEN Outcome(cl, jn, nm, 400, "Your join request is already pending approval")
               ELSE Outcome(cl, jn, nm, 400, "You are already a member of this club")
          ELSE LET pushed == Append(cl[c].members,
                               [id |-> nm, user |-> ObjectId(castUser(reqUserId(u))),
                                status |-> "pending"])
               IN Outcome([cl EXCEPT ![c].members = pushed], jn, nm + 1, 200,
                          "Join request submitted successfully. Waiting for admin approval.")

\* PATCH /:id/members/:memberId/approve
ApproveMember(cl, jn, nm, c, memberId) ==
  IF ~cl[c].exists
  THEN Outcome(cl, jn, nm, 404, "Club not found")
  ELSE LET member == membersId(cl[c].members, memberId)
       IN IF member = 0
          THEN Outcome(cl, jn, nm, 404, "Member not found")
          ELSE LET user == castUser(cl[c].members[member].user)
               IN Outcome([cl EXCEPT ![c].members[member].status = "approved"],
                          [jn EXCEPT ![user] = addToSet(jn[user], c)],
                          nm, 200, "Member approved successfully")

\* RejectMember that also withdraws the club from the user's joinedClubs.
RejectMember_Pull(cl, jn, nm, c, memberId) ==
  IF ~cl[c].exists
  THEN Outcome(cl, jn, nm, 404, "Club not found")
  ELSE LET member == membersId(cl[c].members, memberId)
       IN IF member = 0
          THEN Outcome(cl, jn, nm, 404, "Member not found")
          ELSE LET user == castUser(cl[c].members[member].user)
               IN Outcome([cl EXCEPT ![c].members[member].status = "rejected"],
                          [jn EXCEPT ![user] = pull(jn[user], c)],
                          nm, 200, "Member rejected successfully")

\* PATCH /:id/members/:memberId/reject
RejectMember(cl, jn, nm, c, memberId) ==
  IF ~cl[c].exists
  THEN Outcome(cl, jn, nm, 404, "Club not found")
  ELSE LET member == membersId(cl[c].members, memberId)
       IN IF member = 0
          THEN Outcome(cl, jn, nm, 404, "Member not found")
          ELSE Outcome([cl EXCEPT ![c].members[member].status = "rejected"],
                       jn, nm, 200, "Member rejected successfully")

\* LeaveClub that marks the membership rejected instead of removing it.
LeaveClub_StatusOnly(cl, jn, nm, c, u) ==
  IF ~cl[c].exists
  THEN Outcome(cl, jn, nm, 404, "Club not found")
  ELSE LET memberIndex == findMemberOfUser(cl[c].members, reqUserId(u))
       IN IF memberIndex = 0
          THEN Outcome(cl, jn, nm, 400, "You are not a member of this club")
          ELSE Outcome([cl EXCEPT ![c].members[memberIndex].status = "rejected"],
                       [jn EXCEPT ![castUser(reqUserId(u))] = pull(jn[castUser(reqUserId(u))], c)],
                       nm, 200, "Successfully left the club")

\* POST /:id/leave
LeaveClub(cl, jn, nm, c, u) ==
  IF ~cl[c].exists
  THEN Outcome(cl, jn, nm, 404, "Club not found")
  ELSE LET memberIndex == findMemberOfUser(cl[c].members, reqUserId(u))
       IN IF memberIndex = 0
          THEN Outcome(cl, jn, nm, 400, "You are not a member of this club")
          ELSE Outcome([cl EXCEPT ![c].members = splice(cl[c].members, memberIndex)],
                       [jn EXCEPT ![castUser(reqUserId(u))] = pull(jn[castUser(reqUserId(u))], c)],
                       nm, 200, "Successfully left the club")

\* A filter that drops the rejected members only.
pendingRequests_NotRejected(members) ==
  LET NotRejected(member) == member.status # "rejected"
  IN SelectSeq(members, NotRejected)

\* GET /:id/join-requests: club.members.filter(member => member.status === 'pending')
pendingRequests(members) ==
  LET IsPending(member) == member.status = "pending"
  IN SelectSeq(members, IsPending)

ListPendingRequests(cl, c) ==
  IF ~cl[c].exists
  THEN [code |-> 404, msg |-> "Club not found", requests |-> <<>>]
  ELSE [code |-> 200, msg |-> "", requests |-> pendingRequests(cl[c].members)]

\* DELETE /:id
DeleteClub(cl, jn, nm, c) ==
  IF ~cl[c].exists
  THEN Outcome(cl, jn, nm, 404, "Club not found")
  ELSE Outcome([cl EXCEPT ![c] = NoClub],
               [u \in UserIds |-> pull(jn[u], c)],
               nm, 200, "Club deleted successfully")

\* Club.findOne({ name: /^name$/i, _id: { $ne: except } }); except = 0 for no exclusion
nameTaken(cl, name, except) ==
  \E d \in ClubIds : d # except /\ cl[d].exists /\ regExpMatches(name, cl[d].name)

\* POST /  (c is the _id the store gives the new document)
CreateClub(cl, c, name) ==
  IF nameTaken(cl, name, 0)
  THEN [clubs |-> cl, code |-> 400, msg |-> "Club with this name already exists"]
  ELSE [clubs |-> [cl EXCEPT ![c] = [exists |-> TRUE, name |-> name,
                                     status |-> "active", members |-> <<>>]],
        code |-> 201, msg |-> "Club created successfully"]

\* PUT /:id  (an empty name or status stands for a field the body leaves out)
UpdateClub(cl, c, name, status) ==
  IF ~cl[c].exists
  THEN [clubs |-> cl, code |-> 404, msg |-> "Club not found"]
  ELSE IF name # "" /\ name # cl[c].name /\ nameTaken(cl, name, c)
  THEN [clubs |-> cl, code |-> 400, msg |-> "Club with this name already exists"]
  ELSE [clubs |-> [cl EXCEPT ![c].name = IF name # "" THEN name ELSE @,
                             ![c].status = IF status # "" THEN status ELSE @],
        code |-> 200, msg |-> "Club updated successfully"]

\* ---------------------------------------------------------------- elections
\* The page src/components/Pages/Elections.jsx and the calls it makes through
\* src/services/api.js.  The routes behind /elections follow section 4.2 of
\* the specification: one operator per operation, run as a whole.

\* An account as useAuth() hands it to the page; NoUser is a visitor who is
\* not logged in.  Account 1 is an administrator, the others are students.
NoUser == [id |-> 0, isAdmin |-> FALSE, role |-> ""]
Account(u) == [id |-> u, isAdmin |-> u = 1, role |-> IF u = 1 THEN "admin" ELSE "student"]
Accounts ==
  {NoUser} \cup [id : UserIds, isAdmin : BOOLEAN, role : {"admin", "student", "faculty"}]

NoElection == [exists |-> FALSE, status |-> "", totalVotes |-> 0, candidates |-> <<>>]

\* The response of a route, or of a request that never reached the server
\* (fetch rejects): request() throws for both, the page sees no difference.
NetworkError == 0

\* The sum of the votes fields of a candidate list.
Sum(candidates) ==
  LET upTo[i \in 0..Len(candidates)] ==
        IF i = 0 THEN 0 ELSE upTo[i - 1] + candidates[i].votes
  IN upTo[Len(candidates)]

\* POST /elections.
serverCreateElection(el, e, data) ==
  IF Len(data.candidates) < 2
  THEN [elections |-> el, code |-> 400]
  ELSE [elections |-> [el EXCEPT ![e] =
                         [exists |-> TRUE, status |-> "Pending", totalVotes |-> 0,
                          candidates |-> [i \in 1..Len(data.candidates) |-> [votes |-> 0]]]],
        code |-> 201]

\* POST /elections/:id/vote.
serverCastVote_CandidateOnly(el, uv, e, u, c) ==
  IF ~el[e].exists \/ c \notin 1..Len(el[e].candidates)
  THEN [elections |-> el, voted |-> uv, code |-> 404]
  ELSE IF e \in uv[u]
  THEN [elections |-> el, voted |-> uv, code |-> 409]
  ELSE [elections |-> [el EXCEPT ![e].candidates[c].votes = @ + 1],
        voted |-> [uv EXCEPT ![u] = @ \cup {e}],
        code |-> 200]

serverCastVote(el, uv, e, u, c) ==
  IF ~el[e].exists \/ c \notin 1..Len(el[e].candidates)
  THEN [elections |-> el, voted |-> uv, code |-> 404]
  ELSE IF e \in uv[u]
  THEN [elections |-> el, voted |-> uv, code |-> 409]
  ELSE [elections |-> [el EXCEPT ![e].candidates[c].votes = @ + 1,
                                 ![e].totalVotes = @ + 1],
        voted |-> [uv EXCEPT ![u] = @ \cup {e}],
        code |-> 200]

\* POST /elections/:id/announce.
serverAnnounce(el, user, e) ==
  IF ~(user.isAdmin \/ user.role = "admin")
  THEN [elections |-> el, code |-> 403]
  ELSE IF ~el[e].exists
  THEN [elections |-> el, code |-> 404]
  ELSE [elections |-> [el EXCEPT ![e].status = "Completed"], code |-> 200]

\* What a handler of the page leaves behind: the server's store, the page's
\* own state, whether a request was sent, the response code and the toast.
Click(el, uv, pv, form, sent, code, toast) ==
  [elections |-> el, voted |-> uv, votedElections |-> pv, newElection |-> form,
   sent |-> sent, code |-> code, toast |-> toast]

\* handleAddCandidate: complete is FALSE when name, department, academicYear
\* or profileImage is missing.
handleAddCandidate(form, complete) ==
  IF ~complete
  THEN [newElection |-> form,
        toast |-> "Candidate name, department, academic year, and image are required"]
  ELSE [newElection |-> [form EXCEPT !.candidates = Append(@, [votes |-> 0])],
        toast |-> ""]

EmptyForm == [candidates |-> <<>>]

\* handleCreateElection; net is FALSE when the request does not reach the server.
handleCreateElection_AtLeastOne(el, uv, pv, form, user, e, net) ==
  IF Len(form.candidates) < 1
  THEN Click(el, uv, pv, form, FALSE, 0, "At least two candidates are required")
  ELSE IF ~user.isAdmin /\ user.role # "admin"
  THEN Click(el, uv, pv, form, FALSE, 0, "Only admins can create elections")
  ELSE LET electionData == [candidates |-> form.candidates, status |-> "Pending", totalVotes |-> 0]
           r == serverCreateElection(el, e, electionData)
       IN IF net /\ r.code = 201
          THEN Click(r.elections, uv, pv, EmptyForm, TRUE, 201, "Election created successfully!")
          ELSE Click(IF net THEN r.elections ELSE el, uv, pv, form, TRUE,
                     IF net THEN r.code ELSE NetworkError, "Failed to create election")

handleCreateElection(el, uv, pv, form, user, e, net) ==
  IF Len(form.candidates) < 2
  THEN Click(el, uv, pv, form, FALSE, 0, "At least two candidates are required")
  ELSE IF ~user.isAdmin /\ user.role # "admin"
  THEN Click(el, uv, pv, form, FALSE, 0, "Only admins can create elections")
  ELSE LET electionData == [candidates |-> form.candidates, status |-> "Pending", totalVotes |-> 0]
           r == serverCreateElection(el, e, electionData)
       IN IF net /\ r.code = 201
          THEN Click(r.elections, uv, pv, EmptyForm, TRUE, 201, "Election created successfully!")
          ELSE Click(IF net THEN r.elections ELSE el, uv, pv, form, TRUE,
                     IF net THEN r.code ELSE NetworkError, "Failed to create election")

handleVote_NoThrow(el, uv, pv, form, user, e, c, net) ==
  IF user = NoUser
  THEN Click(el, uv, pv, form, FALSE, 0, "Please login to vote")
  ELSE IF e \in pv
  THEN Click(el, uv, pv, form, FALSE, 0, "You have already voted in this election")
  ELSE LET r == serverCastVote(el, uv, e, user.id, c)
       IN IF net
          THEN Click(r.elections, r.voted, pv \cup {e}, form, TRUE, r.code, "Vote cast successfully!")
          ELSE Click(el, uv, pv, form, TRUE, NetworkError, "Failed to cast vote")

\* handleVote of the page of user, whose votedElections state is pv.  A
\* response that is not ok makes request() throw, which the catch reports.
handleVote(el, uv, pv, form, user, e, c, net) ==
  IF user = NoUser
  THEN Click(el, uv, pv, form, FALSE, 0, "Please login to vote")
  ELSE IF e \in pv
  THEN Click(el, uv, pv, form, FALSE, 0, "You have already voted in this election")
  ELSE LET r == serverCastVote(el, uv, e, user.id, c)
       IN IF net /\ r.code = 200
          THEN Click(r.elections, r.voted, pv \cup {e}, form, TRUE, 200, "Vote cast successfully!")
          ELSE Click(el, uv, pv, form, TRUE, IF net THEN r.code ELSE NetworkError,
                     "Failed to cast vote")

\* announceResults.
announceResults_NoAdminCheck(el, uv, pv, form, user, e, net) ==
  LET r == serverAnnounce(el, user, e)
  IN IF net /\ r.code = 200
     THEN Click(r.elections, uv, pv, form, TRUE, 200, "Election results announced!")
     ELSE Click(el, uv, pv, form, TRUE, IF net THEN r.code ELSE NetworkError,
                "Failed to announce results")

announceResults(el, uv, pv, form, user, e, net) ==
  IF ~user.isAdmin /\ user.role # "admin"
  THEN Click(el, uv, pv, form, FALSE, 0, "Only admins can announce results")
  ELSE LET r == serverAnnounce(el, user, e)
       IN IF net /\ r.code = 200
          THEN Click(r.elections, uv, pv, form, TRUE, 200, "Election results announced!")
          ELSE Click(el, uv, pv, form, TRUE, IF net THEN r.code ELSE NetworkError,
                     "Failed to announce results")

\* GET /  (status "" stands for no status in the query string).  The ids of
\* the clubs the query matches; sort, skip and limit pick the page out of them.
GetClubs_FilterFirst(cl, user, status) ==
  LET wanted == IF status # "" THEN {status}
                ELSE IF user = NoUser \/ ~user.isAdmin THEN {"active"}
                ELSE ClubStatuses
  IN [code |-> 200, clubs |-> {c \in ClubIds : cl[c].exists /\ cl[c].status \in wanted}]

GetClubs(cl, user, status) ==
  LET wanted == IF user = NoUser \/ ~user.isAdmin THEN {"active"}
                ELSE IF status # "" THEN {status}
                ELSE ClubStatuses
  IN [code |-> 200, clubs |-> {c \in ClubIds : cl[c].exists /\ cl[c].status \in wanted}]

\* GET /:id
GetClub(cl, user, c) ==
  IF ~cl[c].exists
  THEN [code |-> 404, msg |-> "Club not found", club |-> NoClub]
  ELSE IF (user = NoUser \/ ~user.isAdmin) /\ cl[c].status # "active"
  THEN [code |-> 404, msg |-> "Club not found", club |-> NoClub]
  ELSE [code |-> 200, msg |-> "", club |-> cl[c]]

\* ------------------------------------------------------------------- users
\* models/User.js, utils/createAdmin.js and POST /register of routes/auth.js.
\* A username is the sequence of its characters, so that the pattern of the
\* schema is computed on it.

Digits == {"0", "1", "2", "3", "4", "5", "6", "7", "8", "9"}

\* The letters d, b and u under the flag i.
lowerCase(ch) ==
  CASE ch = "D" -> "d"
    [] ch = "B" -> "b"
    [] ch = "U" -> "u"
    [] OTHER -> ch

\* match: /^dbu\d{8}$/i
usernameMatches(username) ==
  /\ Len(username) = 11
  /\ lowerCase(username[1]) = "d"
  /\ lowerCase(username[2]) = "b"
  /\ lowerCase(username[3]) = "u"
  /\ \A i \in 4..11 : username[i] \in Digits

MinPasswordLength == 8
Roles == {"admin", "student", "faculty"}
Years == {"1st Year", "2nd Year", "3rd Year", "4th Year", "5th Year"}

\* The validation User.create runs before it saves; name and email of every
\* document built here are within the schema's limits.
validates(data) ==
  /\ usernameMatches(data.username)
  /\ data.passwordLength >= MinPasswordLength
  /\ data.role \in Roles
  /\ data.department
  /\ data.year \in Years

\* The document User.create stores ("" is an email that is not set).  The
\* unique indexes of username and email are not put to the test: no create
\* is attempted for a username or an email the collection holds.
UserDoc(data) ==
  [username |-> data.username, email |-> data.email, role |-> data.role, isAdmin |-> data.isAdmin]

\* User.findOne({ $or: [{ username }, { email }] })
userExists_EmailOnly(users, username, email) ==
  \E user \in users : email # "" /\ user.email = email

userExists(users, username, email) ==
  \E user \in users : user.username = username \/ (email # "" /\ user.email = email)

\* The default admin, the four additional admins and the two sample
\* students, in the order createDefaultAdmin goes through them.
SeedUsers == <<
  [username |-> <<"a", "d", "m", "i", "n", "d", "b", "u", "1", "2">>,
   email |-> "admin@dbu.edu.et", passwordLength |-> 9, role |-> "admin", isAdmin |-> TRUE,
   department |-> TRUE, year |-> "1st Year"],
  [username |-> <<"p", "r", "e", "s", "i", "d", "e", "n", "t", "d", "b", "u">>,
   email |-> "president@dbu.edu.et", passwordLength |-> 9, role |-> "admin", isAdmin |-> TRUE,
   department |-> TRUE, year |-> "4th Year"],
  [username |-> <<"s", "t", "u", "d", "e", "n", "t", "d", "i", "n", "d", "b", "u">>,
   email |-> "studentdin@dbu.edu.et", passwordLength |-> 9, role |-> "admin", isAdmin |-> TRUE,
   department |-> TRUE, year |-> "5th Year"],
  [username |-> <<"a", "c", "a", "d", "e", "m", "i", "c", "d", "b", "u">>,
   email |-> "academic@dbu.edu.et", passwordLength |-> 9, role |-> "admin", isAdmin |-> TRUE,
   department |-> TRUE, year |-> "4th Year"],
  [username |-> <<"c", "l", "u", "b", "s", "d", "b", "u">>,
   email |-> "clubs@dbu.edu.et", passwordLength |-> 9, role |-> "admin", isAdmin |-> TRUE,
   department |-> TRUE, year |-> "3rd Year"],
  [username |-> <<"d", "b", "u", "1", "0", "3", "0", "4", "0", "5", "8">>,
   email |-> "john.doe@dbu.edu.et", passwordLength |-> 11, role |-> "student", isAdmin |-> FALSE,
   department |-> TRUE, year |-> "4th Year"],
  [username |-> <<"d", "b", "u", "1", "0", "3", "0", "4", "0", "5", "9">>,
   email |-> "jane.smith@dbu.edu.et", passwordLength |-> 11, role |-> "student", isAdmin |-> FALSE,
   department |-> TRUE, year |-> "3rd Year"] >>

\* createDefaultAdmin from its i-th account on.  User.create throws when the
\* validation fails; the catch around the whole function logs the error and
\* the run is over.
RECURSIVE seedFrom(_, _)
seedFrom(users, i) ==
  IF i > Len(SeedUsers)
  THEN users
  ELSE LET data == SeedUsers[i]
       IN IF userExists(users, data.username, data.email)
          THEN seedFrom(users, i + 1)
          ELSE IF ~validates(data)
          THEN users
          ELSE seedFrom(users \cup {UserDoc(data)}, i + 1)

createDefaultAdmin(users) == seedFrom(users, 1)

\* POST /register: User.findOne({ $or: [{ username }, ...(email ? [{ email }] : [])] })
registered(users, username, email) ==
  \E user \in users : user.username = username \/ (email # "" /\ user.email = email)

\* POST /register: the body's username and email; the other fields are given
\* and valid, role and isAdmin take the defaults of the schema.
Register(users, username, email) ==
  LET data == [username |-> username, email |-> email, passwordLength |-> MinPasswordLength,
               role |-> "student", isAdmin |-> FALSE, department |-> TRUE, year |-> "1st Year"]
  IN IF registered(users, username, email)
     THEN [users |-> users, code |-> 400, msg |-> "User already exists with this username or email"]
     ELSE IF ~validates(data)
     THEN [users |-> users, code |-> 400, msg |-> "Validation failed"]
     ELSE [users |-> users \cup {UserDoc(data)}, code |-> 201, msg |-> "User registered successfully"]

\* POST /admin-register with a body that holds name, username, password and
\* email: User.create is given these four with role and isAdmin, and neither
\* department nor year; the catch answers every error with 500.
AdminRegister(users, username, email) ==
  LET data == [username |-> username, email |-> email, passwordLength |-> MinPasswordLength,
               role |-> "admin", isAdmin |-> TRUE, department |-> FALSE, year |-> ""]
  IN IF \E user \in users : user.username = username \/ user.email = email
     THEN [users |-> users, code |-> 400, msg |-> "Admin username or email already exists"]
     ELSE IF ~validates(data)
     THEN [users |-> users, code |-> 500, msg |-> "Server error"]
     ELSE [users |-> users \cup {UserDoc(data)}, code |-> 201, msg |-> "Admin registered successfully"]

\* ------------------------------------------------------------ login, lockout
\* Time runs over the instants k * LockTime and k * LockTime + 1: a lock set
\* at an instant ends at an instant, one millisecond after an instant, or a
\* whole period after it.
MaxPeriods == 2
MaxLoginAttempts == 5
LockTime == 2 * 60 * 60 * 1000
Instants == {k * LockTime + d : k \in 0..MaxPeriods, d \in 0..1}

\* A Date field that is not set (undefined).
Unset == 0

\* The account that logs in, as POST /register stored it; isAdmin and
\* isActive are fields no route of auth.js writes, set by the administration
\* of the accounts.
LoginAccount(isAdmin, isActive) ==
  [username |-> SeedUsers[6].username, email |-> SeedUsers[6].email, password |-> "Student123#",
   isAdmin |-> isAdmin, isActive |-> isActive,
   role |-> IF isAdmin THEN "admin" ELSE "student", year |-> SeedUsers[6].year,
   joinedClubs |-> <<>>, votedElections |-> {},
   loginAttempts |-> 0, lockUntil |-> Unset, lastLogin |-> Unset]

LoginUsernames == {SeedUsers[6].username, SeedUsers[7].username}
LoginEmails == {SeedUsers[6].email, SeedUsers[7].email}
Passwords == {"Student123#", "student123"}

\* userSchema.virtual('isLocked'), at time t
isLocked(user, t) == user.lockUntil # Unset /\ user.lockUntil > t

\* bcrypt.compare(enteredPassword, this.password)
matchPassword(user, enteredPassword) == enteredPassword = user.password

\* incLoginAttempts of the document `this` the request read, at time t:
\* the stored document after its updateOne.
incLoginAttempts_NoRestart(stored, this, t) ==
  [stored EXCEPT !.loginAttempts = @ + 1,
                 !.lockUntil = IF this.loginAttempts + 1 >= MaxLoginAttempts /\ ~isLocked(this, t)
                               THEN t + LockTime
                               ELSE @]

incLoginAttempts_LockAfterSix(stored, this, t) ==
  IF this.lockUntil # Unset /\ this.lockUntil < t
  THEN [stored EXCEPT !.lockUntil = Unset, !.loginAttempts = 1]
  ELSE [stored EXCEPT !.loginAttempts = @ + 1,
                      !.lockUntil = IF this.loginAttempts + 1 > MaxLoginAttempts /\ ~isLocked(this, t)
                                    THEN t + LockTime
                                    ELSE @]

incLoginAttempts(stored, this, t) ==
  IF this.lockUntil # Unset /\ this.lockUntil < t
  THEN [stored EXCEPT !.lockUntil = Unset, !.loginAttempts = 1]
  ELSE [stored EXCEPT !.loginAttempts = @ + 1,
                      !.lockUntil = IF this.loginAttempts + 1 >= MaxLoginAttempts /\ ~isLocked(this, t)
                                    THEN t + LockTime
                                    ELSE @]

\* updateLastLogin of the document `this` the request read: save() writes
\* the paths the three assignments changed.
updateLastLogin(stored, this, t) ==
  [stored EXCEPT !.lastLogin = t,
                 !.loginAttempts = IF this.loginAttempts # 0 THEN 0 ELSE @,
                 !.lockUntil = IF this.lockUntil # Unset THEN Unset ELSE @]

LoginAnswer(user, code, msg, token) ==
  [user |-> user, code |-> code, msg |-> msg, token |-> token]

\* POST /login at time t: the stored account afterwards and the response
\* (token: the response carries a token).
Login(stored, t, username, password) ==
  IF stored.username # username
  THEN LoginAnswer(stored, 401, "Invalid credentials", FALSE)
  ELSE IF isLocked(stored, t)
  THEN LoginAnswer(stored, 423, "Account temporarily locked due to too many failed login attempts", FALSE)
  ELSE IF ~stored.isActive
  THEN LoginAnswer(stored, 401, "Account has been deactivated", FALSE)
  ELSE IF ~matchPassword(stored, password)
  THEN LoginAnswer(incLoginAttempts(stored, stored, t), 401, "Invalid credentials", FALSE)
  ELSE LoginAnswer(updateLastLogin(stored, stored, t), 200, "Login successful", TRUE)

\* POST /admin-login: User.findOne({ email, isAdmin: true }), the password
\* check, the token.
AdminLogin(stored, t, email, password) ==
  IF ~(stored.email = email /\ stored.isAdmin)
  THEN LoginAnswer(stored, 401, "Invalid credentials", FALSE)
  ELSE IF ~matchPassword(stored, password)
  THEN LoginAnswer(stored, 401, "Invalid credentials", FALSE)
  ELSE LoginAnswer(stored, 200, "Admin login successful", TRUE)

\* ------------------------------------------- register, profile, password
\* POST /register takes name, username, password, department, year,
\* phoneNumber and email from the body and hands these to User.create;
\* whatever else the body holds (role, isAdmin) is not read.
RegisterBody_WholeBody(users, body) ==
  LET data == [username |-> body.username, email |-> body.email, passwordLength |-> MinPasswordLength,
               role |-> body.role, isAdmin |-> body.isAdmin, department |-> TRUE, year |-> "1st Year"]
  IN IF registered(users, body.username, body.email)
     THEN [users |-> users, code |-> 400, msg |-> "User already exists with this username or email"]
     ELSE [users |-> users \cup {UserDoc(data)}, code |-> 201, msg |-> "User registered successfully"]

RegisterBody(users, body) == Register(users, body.username, body.email)

\* String.prototype.length of the passwords that are sent.
length(password) ==
  CASE password = "" -> 0
    [] password = "short" -> 5
    [] password = "student123" -> 10
    [] OTHER -> 11

\* PUT /profile for the user that protect loaded: the fields of the body
\* that are set replace the user's, then user.save() validates the changed
\* paths (year against the enum, email against the unique index over the
\* other users) and the catch answers a failure with 500.
Profile_AssignBody(users, user, body) ==
  [user |-> [user EXCEPT !.year = body.year, !.email = body.email, !.role = body.role,
                         !.isAdmin = body.isAdmin, !.joinedClubs = body.joinedClubs,
                         !.votedElections = body.votedElections],
   code |-> 200, msg |-> "Profile updated successfully"]

Profile(users, user, body) ==
  LET changed == [user EXCEPT !.year = IF body.year # "" THEN body.year ELSE @,
                              !.email = IF body.email # "" THEN body.email ELSE @]
  IN IF \/ changed.year \notin Years
        \/ (changed.email # user.email /\ \E other \in users : other.email = changed.email)
     THEN [user |-> user, code |-> 500, msg |-> "Server error updating profile"]
     ELSE [user |-> changed, code |-> 200, msg |-> "Profile updated successfully"]

\* PUT /change-password
ChangePassword(user, currentPassword, newPassword) ==
  IF currentPassword = "" \/ newPassword = ""
  THEN [user |-> user, code |-> 400, msg |-> "Please provide current and new password"]
  ELSE IF length(newPassword) < MinPasswordLength
  THEN [user |-> user, code |-> 400, msg |-> "New password must be at least 8 characters"]
  ELSE IF ~matchPassword(user, currentPassword)
  THEN [user |-> user, code |-> 400, msg |-> "Current password is incorrect"]
  ELSE [user |-> [user EXCEPT !.password = newPassword], code |-> 200,
        msg |-> "Password changed successfully"]

\* ---------------------------------------------------------- the clubs page
\* The handlers of Clubs.jsx on the page of an account, each with the
\* request it sends answered by the route.  A club id of 0 is undefined
\* (selectedClub?.id with selectedClub null): the request then goes to
\* /clubs/undefined/..., Club.findById rejects the id and the route's catch
\* answers 500.

\* fetchClubs: setClubs with the clubs GET / lists for the account.
fetchClubs(cl, pg, user) == [pg EXCEPT !.clubs = GetClubs(cl, user, "").clubs]

\* handleJoinClub(club)
handleJoinClub(pg, user, club) ==
  IF user = NoUser
  THEN [page |-> pg, toast |-> "Please login to join clubs"]
  ELSE [page |-> [pg EXCEPT !.selectedClub = club, !.showJoinModal = TRUE], toast |-> ""]

\* fetchJoinRequests(clubId): the _ids of the pending members are kept.
fetchJoinRequests(cl, pg, clubId) ==
  LET r == IF clubId = 0
           THEN [code |-> 500, msg |-> "Server error fetching join requests", requests |-> <<>>]
           ELSE ListPendingRequests(cl, clubId)
  IN IF r.code = 200
     THEN [page |-> [pg EXCEPT !.joinRequests = {r.requests[i].id : i \in 1..Len(r.requests)},
                               !.showJoinRequests = TRUE, !.fetched = clubId],
           toast |-> ""]
     ELSE [page |-> [pg EXCEPT !.fetched = clubId], toast |-> "Failed to fetch join requests"]

PageOutcome(r, pg, sent, toast) ==
  [clubs |-> r.clubs, joined |-> r.joined, nextMid |-> r.nextMid, page |-> pg,
   sent |-> sent, code |-> r.code, toast |-> toast]

\* handleApproveRequest(clubId, memberId); sent is the club id given to
\* apiService.approveClubMember.
handleApproveRequest(cl, jn, nm, pg, user, clubId, memberId) ==
  LET r == IF clubId = 0
           THEN Outcome(cl, jn, nm, 500, "Server error approving member")
           ELSE ApproveMember(cl, jn, nm, clubId, memberId)
  IN IF r.code = 200
     THEN PageOutcome(r, fetchClubs(r.clubs, fetchJoinRequests(r.clubs, pg, clubId).page, user),
                      clubId, "Member approved successfully!")
     ELSE PageOutcome(r, pg, clubId, "Failed to approve member")

\* handleRejectRequest(clubId, memberId)
handleRejectRequest(cl, jn, nm, pg, user, clubId, memberId) ==
  LET r == IF clubId = 0
           THEN Outcome(cl, jn, nm, 500, "Server error rejecting member")
           ELSE RejectMember(cl, jn, nm, clubId, memberId)
  IN IF r.code = 200
     THEN PageOutcome(r, fetchJoinRequests(r.clubs, pg, clubId).page,
                      clubId, "Member rejected successfully!")
     ELSE PageOutcome(r, pg, clubId, "Failed to reject member")

\* handleSubmitJoinRequest with the required fields of the form filled or not.
handleSubmitJoinRequest(cl, jn, nm, pg, u, body) ==
  IF ~body.fullName \/ ~body.department \/ ~body.year
  THEN PageOutcome(Outcome(cl, jn, nm, 0, ""), pg, 0, "Please fill all required fields")
  ELSE LET r == RequestJoin(cl, jn, nm, pg.selectedClub, u, body)
       IN IF r.code = 200
          THEN PageOutcome(r, [pg EXCEPT !.showJoinModal = FALSE], pg.selectedClub,
                           "Join request submitted successfully!")
          ELSE PageOutcome(r, pg, pg.selectedClub, r.msg)

\* handleDeleteClub(clubId): sent tells whether apiService.deleteClub was called.
handleDeleteClub(user, clubId) ==
  IF ~user.isAdmin /\ user.role # "admin"
  THEN [sent |-> FALSE, toast |-> "Only admins can delete clubs"]
  ELSE [sent |-> FALSE, toast |-> "Club deleted successfully!"]

\* Elections.jsx, handleDeleteElection(electionId): sent tells whether
\* apiService.deleteElection was called.
handleDeleteElection(user, electionId) ==
  IF ~user.isAdmin /\ user.role # "admin"
  THEN [sent |-> FALSE, toast |-> "Only admins can delete elections"]
  ELSE [sent |-> FALSE, toast |-> "Election deleted successfully!"]

\* ------------------------------------------------------------------- state
VARIABLES
  clubs,      \* the clubs collection: club _id -> document (NoClub when absent)
  joined,     \* the users collection: user -> joinedClubs array
  nextMid,    \* next fresh _id of an embedded member
  nextClub,   \* next fresh club _id (ids are never reused)
  reqs,       \* approve / leave requests that run one database call at a time
  last,       \* the response sent last, with what the properties need of its request
  elections,           \* the elections collection: election _id -> document
  userVotedElections,  \* the users collection: user -> votedElections
  votedElections,      \* Elections.jsx: the votedElections state of each account's page
  newElection,         \* Elections.jsx: the newElection form of the administrator's page
  nextElection,        \* next fresh election _id
  users,               \* the users collection: the documents User.create stored
  now,                 \* Date.now()
  account,             \* the users collection: the document of the account that logs in
  logins,              \* POST /login requests that run one awaited call at a time
  page                 \* Clubs.jsx: the state of the administrator's clubs page

vars == <<clubs, joined, nextMid, nextClub, reqs, last,
          elections, userVotedElections, votedElections, newElection, nextElection, users,
          now, account, logins, page>>

\* The variables of the clubs routes and those of the elections page.
clubVars == <<clubs, joined, nextMid, nextClub, reqs>>
electionVars == <<elections, userVotedElections, votedElections, newElection, nextElection>>
\* The variables of the login routes, with the clubs page.
loginVars == <<now, account, logins, page>>

\* No election yet, every page freshly loaded.
NoElections ==
  /\ elections = [e \in ElectionIds |-> NoElection]
  /\ userVotedElections = [u \in UserIds |-> {}]
  /\ votedElections = [u \in UserIds |-> {}]
  /\ newElection = EmptyForm
  /\ nextElection = 1

\* A POST /login request between two awaited calls.
LoginIdle == [pc |-> "idle", this |-> LoginAccount(FALSE, TRUE), password |-> ""]

\* Clubs.jsx before the first fetch: no club listed, nothing selected (0 is
\* null), no dialog open; fetched is the club id last passed to
\* fetchJoinRequests, 0 when none was.
FreshPage ==
  [clubs |-> {}, selectedClub |-> 0, showJoinModal |-> FALSE, joinRequests |-> {},
   showJoinRequests |-> FALSE, fetched |-> 0]

\* Nobody logs in; the clubs page is freshly loaded.
NoLogins ==
  /\ now = 0
  /\ account = LoginAccount(FALSE, TRUE)
  /\ logins = [r \in ReqIds |-> LoginIdle]
  /\ page = FreshPage

\* Request bodies of POST /:id/join: TRUE marks a field that is present and
\* non-empty; at most one of the three required fields is missing.
Bodies ==
  {b \in [fullName : BOOLEAN, department : BOOLEAN, year : BOOLEAN] :
     Cardinality({f \in {"fullName", "department", "year"} : ~b[f]}) <= 1}

FullBody == [fullName |-> TRUE, department |-> TRUE, year |-> TRUE]

\* op, code, msg: the route and its response.  c, u: the club and user of a
\* leave or list request (0 otherwise).  was: the status an approved or
\* rejected membership had before.  again: a leave that repeats the successful
\* leave handled just before it.
Last(op, code, msg, c, u, was, again) ==
  [op |-> op, code |-> code, msg |-> msg, c |-> c, u |-> u, was |-> was, again |-> again]

Idle == [pc |-> "idle", op |-> "", c |-> 0, u |-> 0, members |-> <<>>]

Init ==
  /\ clubs = [c \in ClubIds |-> NoClub]
  /\ joined = [u \in UserIds |-> <<>>]
  /\ nextMid = 1
  /\ nextClub = 1
  /\ reqs = [r \in ReqIds |-> Idle]
  /\ last = Last("none", 0, "", 0, 0, "", FALSE)
  /\ NoElections
  /\ users = {}
  /\ NoLogins

Commit(r) ==
  /\ clubs' = r.clubs
  /\ joined' = r.joined
  /\ nextMid' = r.nextMid

statusBefore(cl, c, memberId) ==
  IF cl[c].exists /\ membersId(cl[c].members, memberId) # 0
  THEN cl[c].members[membersId(cl[c].members, memberId)].status
  ELSE ""

PostJoin ==
  \E c \in ClubIds, u \in UserIds, body \in Bodies :
    LET r == RequestJoin(clubs, joined, nextMid, c, u, body)
    IN /\ r.nextMid <= MaxMemberIds + 1
       /\ Commit(r)
       /\ last' = Last("join", r.code, r.msg, 0, 0, "", FALSE)
       /\ UNCHANGED <<electionVars, users, loginVars>>
       /\ UNCHANGED <<nextClub, reqs>>

PatchApprove ==
  \E c \in ClubIds, m \in MemberIds :
    LET r == ApproveMember(clubs, joined, nextMid, c, m)
    IN /\ Commit(r)
       /\ last' = Last("approve", r.code, r.msg, 0, 0, statusBefore(clubs, c, m), FALSE)
       /\ UNCHANGED <<electionVars, users, loginVars>>
       /\ UNCHANGED <<nextClub, reqs>>

PatchReject ==
  \E c \in ClubIds, m \in MemberIds :
    LET r == RejectMember(clubs, joined, nextMid, c, m)
    IN /\ Commit(r)
       /\ last' = Last("reject", r.code, r.msg, 0, 0, statusBefore(clubs, c, m), FALSE)
       /\ UNCHANGED <<electionVars, users, loginVars>>
       /\ UNCHANGED <<nextClub, reqs>>

PostLeave ==
  \E c \in ClubIds, u \in UserIds :
    LET r == LeaveClub(clubs, joined, nextMid, c, u)
    IN /\ Commit(r)
       /\ last' = Last("leave", r.code, r.msg, c, u, "",
                       last.op = "leave" /\ last.code = 200 /\ last.c = c /\ last.u = u)
       /\ UNCHANGED <<electionVars, users, loginVars>>
       /\ UNCHANGED <<nextClub, reqs>>

GetJoinRequests ==
  \E c \in ClubIds :
    LET r == ListPendingRequests(clubs, c)
    IN /\ last' = Last("list", r.code, r.msg, c, 0, "", FALSE)
       /\ UNCHANGED <<electionVars, users, loginVars>>
       /\ UNCHANGED <<clubs, joined, nextMid, nextClub, reqs>>

DeleteClubReq ==
  \E c \in ClubIds :
    LET r == DeleteClub(clubs, joined, nextMid, c)
    IN /\ Commit(r)
       /\ last' = Last("delete", r.code, r.msg, 0, 0, "", FALSE)
       /\ UNCHANGED <<electionVars, users, loginVars>>
       /\ UNCHANGED <<nextClub, reqs>>

\* The membership workflow is explored with clubs of different names that
\* are never renamed.
WorkflowNames == {"chess", "art"}

PostClub(names) ==
  \E name \in names :
    /\ nextClub <= MaxClubs
    /\ LET r == CreateClub(clubs, nextClub, name)
       IN /\ clubs' = r.clubs
          /\ nextClub' = IF r.code = 201 THEN nextClub + 1 ELSE nextClub
          /\ last' = Last("create", r.code, r.msg, 0, 0, "", FALSE)
          /\ UNCHANGED <<electionVars, users, loginVars>>
          /\ UNCHANGED <<joined, nextMid, reqs>>

PutClub(names) ==
  \E c \in ClubIds, name \in names, status \in ClubStatuses \cup {""} :
    LET r == UpdateClub(clubs, c, name, status)
    IN /\ clubs' = r.clubs
       /\ last' = Last("update", r.code, r.msg, 0, 0, "", FALSE)
       /\ UNCHANGED <<electionVars, users, loginVars>>
       /\ UNCHANGED <<joined, nextMid, nextClub, reqs>>

Next ==
  \/ PostClub(WorkflowNames)
  \/ PutClub({""})
  \/ DeleteClubReq
  \/ PostJoin
  \/ PatchApprove
  \/ PatchReject
  \/ PostLeave
  \/ GetJoinRequests

Spec == Init /\ [][Next]_vars

\* ------------------------------------------------- requests, call by call
\* An approve or leave request awaits three database calls in turn:
\* Club.findById, club.save and User.findByIdAndUpdate.  Between two calls
\* the other requests run against the store as it then is.  Every awaited
\* call may also reject, which the handler's catch answers with 500.

\* Club.findById and the checks and in-memory changes up to the call of save.
FindApprove(r) ==
  \E c \in ClubIds, m \in MemberIds :
    /\ reqs[r].pc = "idle"
    /\ IF ~clubs[c].exists
       THEN /\ last' = Last("approve", 404, "Club not found", 0, 0, "", FALSE)
            /\ UNCHANGED reqs
       ELSE LET member == membersId(clubs[c].members, m)
            IN IF member = 0
               THEN /\ last' = Last("approve", 404, "Member not found", 0, 0, "", FALSE)
                    /\ UNCHANGED reqs
               ELSE /\ reqs' = [reqs EXCEPT ![r] =
                                 [pc |-> "found", op |-> "approve", c |-> c,
                                  u |-> castUser(clubs[c].members[member].user),
                                  members |-> [clubs[c].members EXCEPT ![member].status = "approved"]]]
                    /\ UNCHANGED last
    /\ UNCHANGED <<electionVars, users, loginVars>>
    /\ UNCHANGED <<clubs, joined, nextMid, nextClub>>

FindLeave(r) ==
  \E c \in ClubIds, u \in UserIds :
    /\ reqs[r].pc = "idle"
    /\ IF ~clubs[c].exists
       THEN /\ last' = Last("leave", 404, "Club not found", c, u, "", FALSE)
            /\ UNCHANGED reqs
       ELSE LET memberIndex == findMemberOfUser(clubs[c].members, reqUserId(u))
            IN IF memberIndex = 0
               THEN /\ last' = Last("leave", 400, "You are not a member of this club", c, u, "", FALSE)
                    /\ UNCHANGED reqs
               ELSE /\ reqs' = [reqs EXCEPT ![r] =
                                 [pc |-> "found", op |-> "leave", c |-> c,
                                  u |-> castUser(reqUserId(u)),
                                  members |-> splice(clubs[c].members, memberIndex)]]
                    /\ UNCHANGED last
    /\ UNCHANGED <<electionVars, users, loginVars>>
    /\ UNCHANGED <<clubs, joined, nextMid, nextClub>>

\* PATCH /:id/members/:memberId/reject up to the call of save.
FindReject(r) ==
  \E c \in ClubIds, m \in MemberIds :
    /\ reqs[r].pc = "idle"
    /\ IF ~clubs[c].exists
       THEN /\ last' = Last("reject", 404, "Club not found", 0, 0, "", FALSE)
            /\ UNCHANGED reqs
       ELSE LET member == membersId(clubs[c].members, m)
            IN IF member = 0
               THEN /\ last' = Last("reject", 404, "Member not found", 0, 0, "", FALSE)
                    /\ UNCHANGED reqs
               ELSE /\ reqs' = [reqs EXCEPT ![r] =
                                 [pc |-> "found", op |-> "reject", c |-> c,
                                  u |-> castUser(clubs[c].members[member].user),
                                  members |-> [clubs[c].members EXCEPT ![member].status = "rejected"]]]
                    /\ UNCHANGED last
    /\ UNCHANGED <<electionVars, users, loginVars>>
    /\ UNCHANGED <<clubs, joined, nextMid, nextClub>>

\* POST /:id/join up to the call of save: the checks of RequestJoin, then the
\* new member, with its fresh _id, pushed on the list held in memory.
FindJoin(r) ==
  \E c \in ClubIds, u \in UserIds :
    LET j == RequestJoin(clubs, joined, nextMid, c, u, FullBody)
    IN /\ reqs[r].pc = "idle"
       /\ nextMid <= MaxMemberIds + 1
       /\ IF j.code # 200
          THEN /\ last' = Last("join", j.code, j.msg, 0, 0, "", FALSE)
               /\ UNCHANGED <<reqs, nextMid>>
          ELSE /\ reqs' = [reqs EXCEPT ![r] =
                            [pc |-> "found", op |-> "join", c |-> c, u |-> u,
                             members |-> j.clubs[c].members]]
               /\ nextMid' = j.nextMid
               /\ UNCHANGED last
       /\ UNCHANGED <<electionVars, users, loginVars>>
       /\ UNCHANGED <<clubs, joined, nextClub>>

\* The save sends the request's own change and applies it to the list as it
\* is stored at that moment.
SaveClub_OwnChangeOnly(r) ==
  /\ reqs[r].pc = "found"
  /\ clubs[reqs[r].c].exists
  /\ LET stored == clubs[reqs[r].c].members
         held == reqs[r].members
         mine(member) == member.user = ObjectId(reqs[r].u)
         changed ==
           CASE reqs[r].op \in {"approve", "reject"} ->
                  [i \in 1..Len(stored) |->
                     IF mine(stored[i]) /\ \E k \in 1..Len(held) : held[k].id = stored[i].id
                     THEN held[CHOOSE k \in 1..Len(held) : held[k].id = stored[i].id]
                     ELSE stored[i]]
             [] reqs[r].op = "join" -> Append(stored, held[Len(held)])
             [] OTHER -> SelectSeq(stored, LAMBDA member : ~mine(member))
     IN clubs' = [clubs EXCEPT ![reqs[r].c].members = changed]
  /\ reqs' = [reqs EXCEPT ![r].pc = "saved"]
  /\ UNCHANGED <<electionVars, users, loginVars>>
  /\ UNCHANGED <<joined, nextMid, nextClub, last>>

\* await club.save(): the member list held in memory is written back.
SaveClub(r) ==
  /\ reqs[r].pc = "found"
  /\ clubs[reqs[r].c].exists
  /\ clubs' = [clubs EXCEPT ![reqs[r].c].members = reqs[r].members]
  /\ reqs' = [reqs EXCEPT ![r].pc = "saved"]
  /\ UNCHANGED <<electionVars, users, loginVars>>
  /\ UNCHANGED <<joined, nextMid, nextClub, last>>

\* await User.findByIdAndUpdate(...), then the 200 response.
UpdateUser(r) ==
  /\ reqs[r].pc = "saved"
  /\ reqs[r].op \in {"approve", "leave"}
  /\ joined' = [joined EXCEPT ![reqs[r].u] =
                  IF reqs[r].op = "approve"
                  THEN addToSet(@, reqs[r].c)
                  ELSE pull(@, reqs[r].c)]
  /\ last' = IF reqs[r].op = "approve"
             THEN Last("approve", 200, "Member approved successfully", 0, 0, "", FALSE)
             ELSE Last("leave", 200, "Successfully left the club", reqs[r].c, reqs[r].u, "", FALSE)
  /\ reqs' = [reqs EXCEPT ![r] = Idle]
  /\ UNCHANGED <<electionVars, users, loginVars>>
  /\ UNCHANGED <<clubs, nextMid, nextClub>>

\* Reject and join answer 200 as soon as the club is saved.
RespondSaved(r) ==
  /\ reqs[r].pc = "saved"
  /\ reqs[r].op \in {"reject", "join"}
  /\ last' = IF reqs[r].op = "reject"
             THEN Last("reject", 200, "Member rejected successfully", 0, 0, "", FALSE)
             ELSE Last("join", 200, "Join request submitted successfully. Waiting for admin approval.",
                       0, 0, "", FALSE)
  /\ reqs' = [reqs EXCEPT ![r] = Idle]
  /\ UNCHANGED <<electionVars, users, loginVars>>
  /\ UNCHANGED <<clubs, joined, nextMid, nextClub>>

\* The awaited call rejects (the store is unreachable, the document is gone):
\* control passes to the catch block with the store as the earlier calls left it.
CallRejects(r) ==
  /\ reqs[r].pc \in {"found", "saved"}
  /\ reqs' = [reqs EXCEPT ![r].pc = IF reqs[r].pc = "saved" THEN "caught_after_save" ELSE "caught"]
  /\ UNCHANGED <<electionVars, users, loginVars>>
  /\ UNCHANGED <<clubs, joined, nextMid, nextClub, last>>

\* catch (error) { res.status(500)... }
Respond500(r) ==
  /\ reqs[r].pc \in {"caught", "caught_after_save"}
  /\ last' = IF reqs[r].op = "approve"
             THEN Last("approve", 500, "Server error approving member", 0, 0, "", FALSE)
             ELSE Last("leave", 500, "Server error leaving club", reqs[r].c, reqs[r].u, "", FALSE)
  /\ reqs' = [reqs EXCEPT ![r] = Idle]
  /\ UNCHANGED <<electionVars, users, loginVars>>
  /\ UNCHANGED <<clubs, joined, nextMid, nextClub>>

\* The store after an admin created a club and the first two users asked to
\* join it: POST / then POST /1/join twice, run from Init.
InitSteps ==
  /\ clubs = [c \in ClubIds |->
               IF c = 1
               THEN [exists |-> TRUE, name |-> "chess", status |-> "active",
                     members |-> <<[id |-> 1, user |-> ObjectId(1), status |-> "pending"],
                                   [id |-> 2, user |-> ObjectId(2), status |-> "pending"]>>]
               ELSE NoClub]
  /\ joined = [u \in UserIds |-> <<>>]
  /\ nextMid = 3
  /\ nextClub = 2
  /\ reqs = [r \in ReqIds |-> Idle]
  /\ last = Last("join", 200, "Join request submitted successfully. Waiting for admin approval.",
                 0, 0, "", FALSE)
  /\ NoElections
  /\ users = {}
  /\ NoLogins

NextSteps ==
  \/ \E r \in ReqIds : FindApprove(r)
  \/ \E r \in ReqIds : FindLeave(r)
  \/ \E r \in ReqIds : SaveClub(r)
  \/ \E r \in ReqIds : UpdateUser(r)
  \/ \E r \in ReqIds : CallRejects(r)
  \/ \E r \in ReqIds : Respond500(r)

SpecSteps == InitSteps /\ [][NextSteps]_vars

\* Clubs created, renamed, deleted, listed and fetched, with names that differ
\* in case only and names that hold characters special in a pattern.  POST / runs behind
\* validateClub and is given plain names; PUT /:id has no validation.
PlainNames == {"chess", "Chess", "art"}

\* optionalAuth: the requester is a visitor (0) or a logged-in account.
Requester(u) == IF u = 0 THEN NoUser ELSE Account(u)

\* GET / : c holds the number of clubs listed, was the status asked for.
GetClubsReq ==
  \E u \in UserIds \cup {0}, status \in ClubStatuses \cup {""} :
    LET r == GetClubs(clubs, Requester(u), status)
    IN /\ last' = Last("clubs", r.code, "", Cardinality(r.clubs), u, status, FALSE)
       /\ UNCHANGED <<electionVars, users, loginVars>>
       /\ UNCHANGED <<clubs, joined, nextMid, nextClub, reqs>>

\* GET /:id : was holds the status of the club asked for.
GetClubReq ==
  \E u \in UserIds \cup {0}, c \in ClubIds :
    LET r == GetClub(clubs, Requester(u), c)
    IN /\ last' = Last("club", r.code, r.msg, c, u, clubs[c].status, FALSE)
       /\ UNCHANGED <<electionVars, users, loginVars>>
       /\ UNCHANGED <<clubs, joined, nextMid, nextClub, reqs>>

NextNames ==
  \/ PostClub(PlainNames)
  \/ PutClub(ClubNames \cup {""})
  \/ DeleteClubReq
  \/ GetClubsReq
  \/ GetClubReq

SpecNames == Init /\ [][NextNames]_vars

\* The four requests that save the club document, racing one another, with
\* every awaited call succeeding.
NextContend ==
  \/ \E r \in ReqIds : FindApprove(r)
  \/ \E r \in ReqIds : FindReject(r)
  \/ \E r \in ReqIds : FindJoin(r)
  \/ \E r \in ReqIds : FindLeave(r)
  \/ \E r \in ReqIds : SaveClub(r)
  \/ \E r \in ReqIds : UpdateUser(r)
  \/ \E r \in ReqIds : RespondSaved(r)

SpecContend == InitSteps /\ [][NextContend]_vars

\* ------------------------------------------------------ the elections page
\* One browser page per account.  The administrator's page holds the form
\* of the election being composed.

\* Of a click: the response code and the toast, the election and the account,
\* the status the election had (was) and whether a request was sent (again).
ElectionLast(op, r, e, u) ==
  Last(op, r.code, r.toast, e, u, IF e = 0 THEN "" ELSE elections[e].status, r.sent)

\* handleAddCandidate on the administrator's page (the form is rendered only
\* when user.isAdmin).
AddCandidate ==
  \E complete \in BOOLEAN :
    LET r == handleAddCandidate(newElection, complete)
    IN /\ Len(r.newElection.candidates) <= MaxCandidates
       /\ newElection' = r.newElection
       /\ last' = Last("addCandidate", 0, r.toast, 0, 1, "", FALSE)
       /\ UNCHANGED <<elections, userVotedElections, votedElections, nextElection>>
       /\ UNCHANGED <<clubVars, users, loginVars>>

CommitClick(r, u) ==
  /\ elections' = r.elections
  /\ userVotedElections' = r.voted
  /\ votedElections' = [votedElections EXCEPT ![u] = r.votedElections]
  /\ newElection' = r.newElection

SubmitElection ==
  \E net \in BOOLEAN :
    /\ nextElection <= MaxElections
    /\ LET r == handleCreateElection(elections, userVotedElections, votedElections[1],
                                     newElection, Account(1), nextElection, net)
       IN /\ CommitClick(r, 1)
          /\ nextElection' = IF r.code = 201 THEN nextElection + 1 ELSE nextElection
          /\ last' = ElectionLast("create", r, 0, 1)
    /\ UNCHANGED <<clubVars, users, loginVars>>

VoteClick ==
  \E u \in UserIds, e \in ElectionIds, c \in CandidateIds, net \in BOOLEAN :
    LET r == handleVote(elections, userVotedElections, votedElections[u],
                        newElection, Account(u), e, c, net)
    IN /\ CommitClick(r, u)
       /\ last' = ElectionLast("vote", r, e, u)
       /\ UNCHANGED nextElection
       /\ UNCHANGED <<clubVars, users, loginVars>>

AnnounceClick ==
  \E u \in UserIds, e \in ElectionIds, net \in BOOLEAN :
    LET r == announceResults(elections, userVotedElections, votedElections[u],
                             newElection, Account(u), e, net)
    IN /\ CommitClick(r, u)
       /\ last' = ElectionLast("announce", r, e, u)
       /\ UNCHANGED nextElection
       /\ UNCHANGED <<clubVars, users, loginVars>>

\* The page is loaded again: useState(new Set()) and the empty form.
Reload ==
  \E u \in UserIds :
    /\ votedElections' = [votedElections EXCEPT ![u] = {}]
    /\ newElection' = IF u = 1 THEN EmptyForm ELSE newElection
    /\ last' = Last("reload", 0, "", 0, u, "", FALSE)
    /\ UNCHANGED <<elections, userVotedElections, nextElection>>
    /\ UNCHANGED <<clubVars, users, loginVars>>

NextElections ==
  \/ AddCandidate
  \/ SubmitElection
  \/ VoteClick
  \/ AnnounceClick
  \/ Reload

SpecElections == Init /\ [][NextElections]_vars

\* ------------------------------------------------------ votes, call by call
\* A vote from the click to the toast.  The page checks its own state when
\* the button is clicked and changes it only when the response arrives.  On
\* the server the route reads the election, reads the user, and writes the
\* election and then the user, one database call at a time (sections 4.2, 5
\* and 9 of the specification: read the document, change it in memory, write
\* it back).  Between two calls the other requests run.

VoteIdle ==
  [pc |-> "idle", u |-> 0, e |-> 0, c |-> 0, captured |-> {}, doc |-> NoElection, code |-> 0]

\* handleVote up to the call of apiService.voteInElection.
ClickVote(r) ==
  \E u \in UserIds, e \in ElectionIds, c \in CandidateIds :
    /\ reqs[r].pc = "idle"
    /\ IF e \in votedElections[u]
       THEN /\ last' = Last("vote", 0, "You have already voted in this election", e, u, "", FALSE)
            /\ UNCHANGED reqs
       ELSE /\ reqs' = [reqs EXCEPT ![r] =
                         [VoteIdle EXCEPT !.pc = "sent", !.u = u, !.e = e, !.c = c,
                                          !.captured = votedElections[u]]]
            /\ UNCHANGED last
    /\ UNCHANGED <<clubs, joined, nextMid, nextClub>>
    /\ UNCHANGED <<electionVars, users, loginVars>>

Answer(r, code) == [reqs EXCEPT ![r].pc = "responded", ![r].code = code]

\* The route reads the election: 404 when it or the candidate is missing.
FindElection(r) ==
  /\ reqs[r].pc = "sent"
  /\ LET e == reqs[r].e
     IN reqs' = IF ~elections[e].exists \/ reqs[r].c \notin 1..Len(elections[e].candidates)
                THEN Answer(r, 404)
                ELSE [reqs EXCEPT ![r].pc = "found", ![r].doc = elections[e]]
  /\ UNCHANGED <<clubs, joined, nextMid, nextClub, last>>
  /\ UNCHANGED <<electionVars, users, loginVars>>

\* The route reads the user: 409 when votedElections holds the election;
\* otherwise both counters rise in the copy held in memory.
CheckVoted(r) ==
  /\ reqs[r].pc = "found"
  /\ reqs' = IF reqs[r].e \in userVotedElections[reqs[r].u]
             THEN Answer(r, 409)
             ELSE [reqs EXCEPT ![r].pc = "checked",
                               ![r].doc.candidates[reqs[r].c].votes = @ + 1,
                               ![r].doc.totalVotes = @ + 1]
  /\ UNCHANGED <<clubs, joined, nextMid, nextClub, last>>
  /\ UNCHANGED <<electionVars, users, loginVars>>

\* The election held in memory is written back.
SaveElection(r) ==
  /\ reqs[r].pc = "checked"
  /\ elections' = [elections EXCEPT ![reqs[r].e] = reqs[r].doc]
  /\ reqs' = [reqs EXCEPT ![r].pc = "savedElection"]
  /\ UNCHANGED <<clubs, joined, nextMid, nextClub, last>>
  /\ UNCHANGED <<userVotedElections, votedElections, newElection, nextElection>>
  /\ UNCHANGED <<users, loginVars>>

\* The election is added to the user's votedElections; the route answers 200.
SaveVoter(r) ==
  /\ reqs[r].pc = "savedElection"
  /\ userVotedElections' = [userVotedElections EXCEPT ![reqs[r].u] = @ \cup {reqs[r].e}]
  /\ reqs' = Answer(r, 200)
  /\ UNCHANGED <<clubs, joined, nextMid, nextClub, last>>
  /\ UNCHANGED <<elections, votedElections, newElection, nextElection>>
  /\ UNCHANGED <<users, loginVars>>

\* handleVote after the await: setVotedElections with the set the handler
\* captured when it was called, or the catch block.
VoteAnswered(r) ==
  /\ reqs[r].pc = "responded"
  /\ votedElections' =
       IF reqs[r].code = 200
       THEN [votedElections EXCEPT ![reqs[r].u] = reqs[r].captured \cup {reqs[r].e}]
       ELSE votedElections
  /\ last' = Last("vote", reqs[r].code,
                  IF reqs[r].code = 200 THEN "Vote cast successfully!" ELSE "Failed to cast vote",
                  reqs[r].e, reqs[r].u, "", TRUE)
  /\ reqs' = [reqs EXCEPT ![r] = VoteIdle]
  /\ UNCHANGED <<clubs, joined, nextMid, nextClub>>
  /\ UNCHANGED <<elections, userVotedElections, newElection, nextElection>>
  /\ UNCHANGED <<users, loginVars>>

\* The store after the administrator created a first election with two
\* candidates: handleAddCandidate twice, then handleCreateElection, from Init.
InitVoteSteps ==
  /\ clubs = [c \in ClubIds |-> NoClub]
  /\ joined = [u \in UserIds |-> <<>>]
  /\ nextMid = 1
  /\ nextClub = 1
  /\ reqs = [r \in ReqIds |-> VoteIdle]
  /\ last = Last("create", 201, "Election created successfully!", 0, 1, "", TRUE)
  /\ elections = [e \in ElectionIds |->
                    IF e = 1
                    THEN [exists |-> TRUE, status |-> "Pending", totalVotes |-> 0,
                          candidates |-> <<[votes |-> 0], [votes |-> 0]>>]
                    ELSE NoElection]
  /\ userVotedElections = [u \in UserIds |-> {}]
  /\ votedElections = [u \in UserIds |-> {}]
  /\ newElection = EmptyForm
  /\ nextElection = 2
  /\ users = {}
  /\ NoLogins

NextVoteSteps ==
  \/ \E r \in ReqIds : ClickVote(r)
  \/ \E r \in ReqIds : FindElection(r)
  \/ \E r \in ReqIds : CheckVoted(r)
  \/ \E r \in ReqIds : SaveElection(r)
  \/ \E r \in ReqIds : SaveVoter(r)
  \/ \E r \in ReqIds : VoteAnswered(r)

SpecVoteSteps == InitVoteSteps /\ [][NextVoteSteps]_vars

\* ------------------------------------------------ users seeded, registered
\* The usernames students register with: dbu0000000k, the default admin's
\* username and the first sample student's.  Their emails: none, or an
\* address of a seeded admin.
RegistrantDigit == <<"1", "2", "3", "4", "5", "6", "7", "8", "9">>
Registrant(k) == <<"d", "b", "u", "0", "0", "0", "0", "0", "0", "0", RegistrantDigit[k]>>
RegisterUsernames ==
  {Registrant(k) : k \in 1..NumRegistrants} \cup {SeedUsers[1].username, SeedUsers[6].username}
RegisterEmails == {data.email : data \in {d \in Range(SeedUsers) : d.isAdmin}} \cup {""}

\* startServer: connectDB awaits createDefaultAdmin before the server listens.
\* c and u hold the number of users after and before the run, was tells
\* whether the run changed the users, again whether the event before it was
\* a run too.
StartServer ==
  /\ users' = createDefaultAdmin(users)
  /\ last' = Last("seed", 0, "", Cardinality(users'), Cardinality(users),
                  IF users' = users THEN "same" ELSE "created", last.op = "seed")
  /\ UNCHANGED clubVars
  /\ UNCHANGED <<electionVars, loginVars>>

PostRegister ==
  \E username \in RegisterUsernames, email \in RegisterEmails :
    LET r == Register(users, username, email)
    IN /\ users' = r.users
       /\ last' = Last("register", r.code, r.msg, 0, 0, "", FALSE)
       /\ UNCHANGED clubVars
       /\ UNCHANGED <<electionVars, loginVars>>

\* POST /admin-register: was tells whether a stored user had the username
\* or the email, c and u count the users after and before.
PostAdminRegister ==
  \E username \in RegisterUsernames, email \in RegisterEmails \ {""} :
    LET r == AdminRegister(users, username, email)
    IN /\ users' = r.users
       /\ last' = Last("admin-register", r.code, r.msg, Cardinality(r.users), Cardinality(users),
                       IF \E user \in users : user.username = username \/ user.email = email
                       THEN "taken" ELSE "new",
                       FALSE)
       /\ UNCHANGED clubVars
       /\ UNCHANGED <<electionVars, loginVars>>

NextUsers ==
  \/ StartServer
  \/ PostRegister
  \/ PostAdminRegister

SpecUsers == Init /\ [][NextUsers]_vars

\* ------------------------------------------------------------------ logins
\* One account of the users collection, with each combination of isAdmin
\* and isActive, and the requests that name it or another account.
InitLogin ==
  /\ clubs = [c \in ClubIds |-> NoClub]
  /\ joined = [u \in UserIds |-> <<>>]
  /\ nextMid = 1
  /\ nextClub = 1
  /\ reqs = [r \in ReqIds |-> Idle]
  /\ last = Last("none", 0, "", 0, 0, "", FALSE)
  /\ NoElections
  /\ users = {}
  /\ now = 0
  /\ account \in {LoginAccount(isAdmin, isActive) : isAdmin \in BOOLEAN, isActive \in BOOLEAN}
  /\ logins = [r \in ReqIds |-> LoginIdle]
  /\ page = FreshPage

\* Time passes.
Tick ==
  /\ \E t \in Instants : t > now /\ now' = t
  /\ UNCHANGED <<clubVars, electionVars, users, last, account, logins, page>>

\* POST /login.  In last: c counts the requests in a row that named the
\* account and were answered 401 "Invalid credentials", was tells whether
\* the first of them found loginAttempts = 0 ("zero") or a lock that had
\* expired ("expired"), u is the time of the response,
\* again tells whether it carries a token.  A request that names another
\* account (op "login-other") leaves the count as it is.
PostLogin ==
  \E username \in LoginUsernames, password \in Passwords :
    LET r == Login(account, now, username, password)
        named == username = account.username
        failed == named /\ r.code = 401 /\ r.msg = "Invalid credentials"
    IN /\ account' = r.user
       /\ last' = Last(IF named THEN "login" ELSE "login-other", r.code, r.msg,
                       IF failed THEN last.c + 1 ELSE IF named THEN 0 ELSE last.c,
                       now,
                       IF failed
                       THEN (IF last.c > 0 THEN last.was
                             ELSE IF account.loginAttempts = 0 THEN "zero"
                             ELSE IF account.lockUntil # Unset /\ account.lockUntil < now THEN "expired"
                             ELSE "later")
                       ELSE IF named THEN "" ELSE last.was,
                       r.token)
       /\ UNCHANGED <<clubVars, electionVars, users, now, logins, page>>

\* POST /admin-login; c and was are carried over.
PostAdminLogin ==
  \E email \in LoginEmails, password \in Passwords :
    LET r == AdminLogin(account, now, email, password)
    IN /\ account' = r.user
       /\ last' = Last("admin-login", r.code, r.msg, last.c, now, last.was, r.token)
       /\ UNCHANGED <<clubVars, electionVars, users, now, logins, page>>

NextLogin ==
  \/ Tick
  \/ PostLogin
  \/ PostAdminLogin

SpecLogin == InitLogin /\ [][NextLogin]_vars

\* POST /login, one awaited call at a time: User.findOne with the checks
\* that follow it, matchPassword, then incLoginAttempts or updateLastLogin.
\* Other requests and the clock run between two calls; each method decides
\* on the document its request read and on the time of its call.
LoginResponse(code, msg, token) == Last("login", code, msg, 0, now, "", token)

FindUser(r) ==
  \E username \in LoginUsernames, password \in Passwords :
    /\ logins[r].pc = "idle"
    /\ IF account.username # username
       THEN /\ last' = LoginResponse(401, "Invalid credentials", FALSE)
            /\ UNCHANGED logins
       ELSE IF isLocked(account, now)
       THEN /\ last' = LoginResponse(423, "Account temporarily locked due to too many failed login attempts", FALSE)
            /\ UNCHANGED logins
       ELSE IF ~account.isActive
       THEN /\ last' = LoginResponse(401, "Account has been deactivated", FALSE)
            /\ UNCHANGED logins
       ELSE /\ logins' = [logins EXCEPT ![r] = [pc |-> "found", this |-> account, password |-> password]]
            /\ UNCHANGED last
    /\ UNCHANGED <<clubVars, electionVars, users, now, account, page>>

MatchPassword(r) ==
  /\ logins[r].pc = "found"
  /\ logins' = [logins EXCEPT ![r].pc =
                  IF matchPassword(logins[r].this, logins[r].password) THEN "matched" ELSE "failed"]
  /\ UNCHANGED <<clubVars, electionVars, users, now, account, page, last>>

IncLoginAttempts(r) ==
  /\ logins[r].pc = "failed"
  /\ account' = incLoginAttempts(account, logins[r].this, now)
  /\ last' = LoginResponse(401, "Invalid credentials", FALSE)
  /\ logins' = [logins EXCEPT ![r] = LoginIdle]
  /\ UNCHANGED <<clubVars, electionVars, users, now, page>>

UpdateLastLogin(r) ==
  /\ logins[r].pc = "matched"
  /\ account' = updateLastLogin(account, logins[r].this, now)
  /\ last' = LoginResponse(200, "Login successful", TRUE)
  /\ logins' = [logins EXCEPT ![r] = LoginIdle]
  /\ UNCHANGED <<clubVars, electionVars, users, now, page>>

NextLoginSteps ==
  \/ Tick
  \/ \E r \in ReqIds : FindUser(r)
  \/ \E r \in ReqIds : MatchPassword(r)
  \/ \E r \in ReqIds : IncLoginAttempts(r)
  \/ \E r \in ReqIds : UpdateLastLogin(r)

SpecLoginSteps == InitLogin /\ [][NextLoginSteps]_vars

\* ------------------------------------------------- profiles and passwords
\* The store after the second account asked to join club 1, was approved
\* and voted in election 1.  The account that sends PUT /profile and
\* PUT /change-password is that student or the administrator; the users
\* that register later are held in users.
InitProfiles ==
  /\ clubs = [c \in ClubIds |->
               IF c = 1
               THEN [exists |-> TRUE, name |-> "chess", status |-> "active",
                     members |-> <<[id |-> 1, user |-> ObjectId(2), status |-> "approved"]>>]
               ELSE NoClub]
  /\ joined = [u \in UserIds |-> IF u = 2 THEN <<1>> ELSE <<>>]
  /\ nextMid = 2
  /\ nextClub = 2
  /\ reqs = [r \in ReqIds |-> Idle]
  /\ last = Last("vote", 200, "Vote cast successfully!", 1, 2, "", TRUE)
  /\ elections = [e \in ElectionIds |->
                    IF e = 1
                    THEN [exists |-> TRUE, status |-> "Pending", totalVotes |-> 1,
                          candidates |-> <<[votes |-> 1], [votes |-> 0]>>]
                    ELSE NoElection]
  /\ userVotedElections = [u \in UserIds |-> IF u = 2 THEN {1} ELSE {}]
  /\ votedElections = [u \in UserIds |-> IF u = 2 THEN {1} ELSE {}]
  /\ newElection = EmptyForm
  /\ nextElection = 2
  /\ users = {}
  /\ now = 0
  /\ account \in {[LoginAccount(FALSE, TRUE) EXCEPT !.joinedClubs = <<1>>, !.votedElections = {1}],
                   LoginAccount(TRUE, TRUE)}
  /\ logins = [r \in ReqIds |-> LoginIdle]
  /\ page = FreshPage

\* The bodies sent to POST /register and PUT /profile: the fields the routes
\* read, and fields they do not read.
RegisterBodies ==
  [username : {Registrant(1), Registrant(2)}, email : {"", SeedUsers[2].email},
   role : Roles, isAdmin : BOOLEAN]
ProfileBodies ==
  [year : {"", "2nd Year", "6th Year"}, email : {"", SeedUsers[2].email, SeedUsers[3].email},
   role : {"admin", "student"}, isAdmin : BOOLEAN,
   joinedClubs : {<<>>, <<2>>}, votedElections : {{}, {2}}]

\* POST /register: was holds the role the body asked for.
PostRegisterBody ==
  \E body \in RegisterBodies :
    LET r == RegisterBody(users, body)
    IN /\ users' = r.users
       /\ last' = Last("register", r.code, r.msg, 0, 0, body.role, body.isAdmin)
       /\ UNCHANGED <<clubVars, electionVars, loginVars>>

\* PUT /profile: was holds the role the body asked for.
PutProfile ==
  \E body \in ProfileBodies :
    LET r == Profile(users, account, body)
    IN /\ account' = r.user
       /\ last' = Last("profile", r.code, r.msg, 0, 0, body.role, body.isAdmin)
       /\ UNCHANGED <<clubVars, electionVars, users, now, logins, page>>

PutChangePassword ==
  \E currentPassword \in Passwords \cup {""}, newPassword \in Passwords \cup {"", "short"} :
    LET r == ChangePassword(account, currentPassword, newPassword)
    IN /\ account' = r.user
       /\ last' = Last("change-password", r.code, r.msg, 0, 0, "", FALSE)
       /\ UNCHANGED <<clubVars, electionVars, users, now, logins, page>>

NextProfiles ==
  \/ PostRegisterBody
  \/ PutProfile
  \/ PutChangePassword

SpecProfiles == InitProfiles /\ [][NextProfiles]_vars

\* ------------------------------------------- the administrator's pages
\* The administrator (account 1) on the clubs page and on the elections
\* page, while the accounts send join requests.  The store holds two clubs,
\* the first with a pending request of account 2, and one election:
\* POST / twice, POST /1/join and the creation of an election, from Init.
InitPages ==
  /\ clubs = [c \in ClubIds |->
               IF c = 1
               THEN [exists |-> TRUE, name |-> "chess", status |-> "active",
                     members |-> <<[id |-> 1, user |-> ObjectId(2), status |-> "pending"]>>]
               ELSE IF c = 2
               THEN [exists |-> TRUE, name |-> "art", status |-> "active", members |-> <<>>]
               ELSE NoClub]
  /\ joined = [u \in UserIds |-> <<>>]
  /\ nextMid = 2
  /\ nextClub = 3
  /\ reqs = [r \in ReqIds |-> Idle]
  /\ last = Last("create", 201, "Election created successfully!", 0, 1, "", TRUE)
  /\ elections = [e \in ElectionIds |->
                    IF e = 1
                    THEN [exists |-> TRUE, status |-> "Pending", totalVotes |-> 0,
                          candidates |-> <<[votes |-> 0], [votes |-> 0]>>]
                    ELSE NoElection]
  /\ userVotedElections = [u \in UserIds |-> {}]
  /\ votedElections = [u \in UserIds |-> {}]
  /\ newElection = EmptyForm
  /\ nextElection = 2
  /\ users = {}
  /\ now = 0
  /\ account = LoginAccount(FALSE, TRUE)
  /\ logins = [r \in ReqIds |-> LoginIdle]
  /\ page = FreshPage

\* Neither the join form nor the join-requests dialog covers the page.
NoDialog == ~page.showJoinModal /\ ~page.showJoinRequests

\* In last, for the events of the page: c is the club id the handler gave to
\* the API (the club or election clicked, for a delete), u the club id last
\* passed to fetchJoinRequests before the event, again whether a request
\* was sent.
PageLast(op, code, toast, c, sent) == Last(op, code, toast, c, page.fetched, "", sent)

\* useEffect(() => { fetchClubs(); }, []) and every later reload.
LoadClubs ==
  /\ page' = fetchClubs(clubs, FreshPage, Account(1))
  /\ last' = PageLast("ui-load", 200, "", 0, TRUE)
  /\ UNCHANGED <<clubVars, electionVars, users, now, account, logins>>

JoinClick ==
  \E c \in page.clubs :
    LET r == handleJoinClub(page, Account(1), c)
    IN /\ NoDialog
       /\ page' = r.page
       /\ last' = PageLast("ui-join", 0, r.toast, c, FALSE)
       /\ UNCHANGED <<clubVars, electionVars, users, now, account, logins>>

\* onClick={() => setShowJoinModal(false)}
CloseJoinModal ==
  /\ page.showJoinModal
  /\ page' = [page EXCEPT !.showJoinModal = FALSE]
  /\ last' = PageLast("ui-close", 0, "", 0, FALSE)
  /\ UNCHANGED <<clubVars, electionVars, users, now, account, logins>>

SubmitJoinClick ==
  \E body \in Bodies :
    LET r == handleSubmitJoinRequest(clubs, joined, nextMid, page, 1, body)
    IN /\ page.showJoinModal /\ page.selectedClub # 0
       /\ r.nextMid <= MaxMemberIds + 1
       /\ Commit(r)
       /\ page' = r.page
       /\ last' = PageLast("ui-submit", r.code, r.toast, r.sent, r.sent # 0)
       /\ UNCHANGED <<nextClub, reqs>>
       /\ UNCHANGED <<electionVars, users, now, account, logins>>

JoinRequestsClick ==
  \E c \in page.clubs :
    LET r == fetchJoinRequests(clubs, page, c)
    IN /\ NoDialog
       /\ page' = r.page
       /\ last' = PageLast("ui-requests", 0, r.toast, c, TRUE)
       /\ UNCHANGED <<clubVars, electionVars, users, now, account, logins>>

\* onClick={() => setShowJoinRequests(false)}
CloseJoinRequests ==
  /\ page.showJoinRequests
  /\ page' = [page EXCEPT !.showJoinRequests = FALSE]
  /\ last' = PageLast("ui-close", 0, "", 0, FALSE)
  /\ UNCHANGED <<clubVars, electionVars, users, now, account, logins>>

\* The Approve button of a listed request: handleApproveRequest(selectedClub?.id, request._id)
ApproveClick ==
  \E m \in page.joinRequests :
    LET r == handleApproveRequest(clubs, joined, nextMid, page, Account(1), page.selectedClub, m)
    IN /\ page.showJoinRequests
       /\ Commit(r)
       /\ page' = r.page
       /\ last' = PageLast("ui-approve", r.code, r.toast, r.sent, TRUE)
       /\ UNCHANGED <<nextClub, reqs>>
       /\ UNCHANGED <<electionVars, users, now, account, logins>>

\* The Reject button: handleRejectRequest(selectedClub?.id, request._id)
RejectClick ==
  \E m \in page.joinRequests :
    LET r == handleRejectRequest(clubs, joined, nextMid, page, Account(1), page.selectedClub, m)
    IN /\ page.showJoinRequests
       /\ Commit(r)
       /\ page' = r.page
       /\ last' = PageLast("ui-reject", r.code, r.toast, r.sent, TRUE)
       /\ UNCHANGED <<nextClub, reqs>>
       /\ UNCHANGED <<electionVars, users, now, account, logins>>

DeleteClubClick ==
  \E c \in page.clubs :
    LET r == handleDeleteClub(Account(1), c)
    IN /\ NoDialog
       /\ last' = PageLast("ui-delete-club", 0, r.toast, c, r.sent)
       /\ UNCHANGED <<clubVars, electionVars, users, loginVars>>

\* The delete button of an election card on the elections page.
DeleteElectionClick ==
  \E e \in ElectionIds :
    LET r == handleDeleteElection(Account(1), e)
    IN /\ elections[e].exists
       /\ last' = PageLast("ui-delete-election", 0, r.toast, e, r.sent)
       /\ UNCHANGED <<clubVars, electionVars, users, loginVars>>

NextPages ==
  \/ LoadClubs
  \/ JoinClick
  \/ CloseJoinModal
  \/ SubmitJoinClick
  \/ JoinRequestsClick
  \/ CloseJoinRequests
  \/ ApproveClick
  \/ RejectClick
  \/ DeleteClubClick
  \/ DeleteElectionClick
  \/ PostJoin

SpecPages == InitPages /\ [][NextPages]_vars

\* -------------------------------------------- a club deleted, call by call
\* DELETE /:id awaits Club.findById, User.updateMany and
\* Club.findByIdAndDelete in turn, while approve requests run between them.

\* Club.findById and the 404 of a club that is not stored.
FindDelete(r) ==
  \E c \in ClubIds :
    /\ reqs[r].pc = "idle"
    /\ IF ~clubs[c].exists
       THEN /\ last' = Last("delete", 404, "Club not found", c, 0, "", FALSE)
            /\ UNCHANGED reqs
       ELSE /\ reqs' = [reqs EXCEPT ![r] =
                         [pc |-> "deleting", op |-> "delete", c |-> c, u |-> 0, members |-> <<>>]]
            /\ UNCHANGED last
    /\ UNCHANGED <<electionVars, users, loginVars>>
    /\ UNCHANGED <<clubs, joined, nextMid, nextClub>>

\* User.updateMany({ joinedClubs: club._id }, { $pull: { joinedClubs: club._id } })
PullJoinedClubs(r) ==
  /\ reqs[r].pc = "deleting"
  /\ joined' = [u \in UserIds |-> pull(joined[u], reqs[r].c)]
  /\ reqs' = [reqs EXCEPT ![r].pc = "pulled"]
  /\ UNCHANGED <<electionVars, users, loginVars>>
  /\ UNCHANGED <<clubs, nextMid, nextClub, last>>

\* Club.findByIdAndDelete, then the 200 response.
FindByIdAndDelete(r) ==
  /\ reqs[r].pc = "pulled"
  /\ clubs' = [clubs EXCEPT ![reqs[r].c] = NoClub]
  /\ last' = Last("delete", 200, "Club deleted successfully", reqs[r].c, 0, "", FALSE)
  /\ reqs' = [reqs EXCEPT ![r] = Idle]
  /\ UNCHANGED <<electionVars, users, loginVars>>
  /\ UNCHANGED <<joined, nextMid, nextClub>>

NextDelete ==
  \/ \E r \in ReqIds : FindApprove(r)
  \/ \E r \in ReqIds : SaveClub(r)
  \/ \E r \in ReqIds : UpdateUser(r)
  \/ \E r \in ReqIds : CallRejects(r)
  \/ \E r \in ReqIds : Respond500(r)
  \/ \E r \in ReqIds : FindDelete(r)
  \/ \E r \in ReqIds : PullJoinedClubs(r)
  \/ \E r \in ReqIds : FindByIdAndDelete(r)

SpecDelete == InitSteps /\ [][NextDelete]_vars

\* --------------------------------------------------------------- properties
MembersOf(cl, c, u) ==
  {i \in 1..Len(cl[c].members) : cl[c].members[i].user = ObjectId(u)}

ActiveMembersOf(cl, c, u) ==
  {i \in MembersOf(cl, c, u) : cl[c].members[i].status \in {"pending", "approved"}}

AllPresent(body) == body.fullName /\ body.department /\ body.year

\* C1: every club holds at most one membership with status pending or
\* approved for any given user.
C1_OneActiveMembership ==
  \A c \in ClubIds, u \in UserIds : Cardinality(ActiveMembersOf(clubs, c, u)) <= 1

\* A join request was refused because the user already had a membership.
C1_Witness ==
  /\ last.op = "join"
  /\ last.code = 400
  /\ last.msg = "Your join request is already pending approval"
  /\ \E c \in ClubIds, u \in UserIds : Cardinality(ActiveMembersOf(clubs, c, u)) = 1

\* C2: RequestJoin on an existing club whose status is not active answers 400
\* (with the message 'Cannot join inactive club' when the required fields are
\* there) and leaves the club's member list as it was.
C2_InactiveClubRefusesJoin ==
  \A c \in ClubIds, u \in UserIds, body \in Bodies :
    (clubs[c].exists /\ clubs[c].status # "active") =>
      LET r == RequestJoin(clubs, joined, nextMid, c, u, body)
      IN /\ r.code = 400
         /\ AllPresent(body) => r.msg = "Cannot join inactive club"
         /\ r.clubs = clubs
         /\ r.joined = joined

\* A join request on a club that is not active was refused.
C2_Witness ==
  /\ last.op = "join"
  /\ last.code = 400
  /\ last.msg = "Cannot join inactive club"
  /\ \E c \in ClubIds : clubs[c].exists /\ clubs[c].status # "active"

\* C3: on an active club RequestJoin fails with Conflict exactly when the user
\* has a pending or approved membership there (one message per status), and
\* otherwise, also when the user's only membership is rejected, appends one
\* pending membership at the end of the member list.
C3_ConflictExactlyWhenActive ==
  \A c \in ClubIds, u \in UserIds :
    (clubs[c].exists /\ clubs[c].status = "active") =>
      LET r == RequestJoin(clubs, joined, nextMid, c, u, FullBody)
          act == ActiveMembersOf(clubs, c, u)
      IN IF act # {}
         THEN /\ r.code = 400
              /\ r.clubs = clubs
              /\ (\A i \in act : clubs[c].members[i].status = "pending")
                   => r.msg = "Your join request is already pending approval"
              /\ (\A i \in act : clubs[c].members[i].status = "approved")
                   => r.msg = "You are already a member of this club"
         ELSE /\ r.code = 200
              /\ Len(r.clubs[c].members) = Len(clubs[c].members) + 1
              /\ SubSeq(r.clubs[c].members, 1, Len(clubs[c].members)) = clubs[c].members
              /\ r.clubs[c].members[Len(r.clubs[c].members)].status = "pending"
              /\ r.clubs[c].members[Len(r.clubs[c].members)].user = ObjectId(u)

\* C4: ApproveMember on an existing membership sets its status to approved and
\* makes the user's joinedClubs contain the club; approving the same
\* membership a second time leaves exactly one reference to the club in
\* joinedClubs and the same store as approving it once.
C4_ApproveIdempotent ==
  \A c \in ClubIds, m \in MemberIds :
    (clubs[c].exists /\ membersId(clubs[c].members, m) # 0) =>
      LET i == membersId(clubs[c].members, m)
          user == clubs[c].members[i].user.n
          once == ApproveMember(clubs, joined, nextMid, c, m)
          twice == ApproveMember(once.clubs, once.joined, once.nextMid, c, m)
      IN /\ once.code = 200
         /\ once.clubs[c].members[i].status = "approved"
         /\ c \in Range(once.joined[user])
         /\ twice.code = 200
         /\ Count(twice.joined[user], c) = 1
         /\ twice.clubs = once.clubs
         /\ twice.joined = once.joined

\* A membership that was already approved has been approved again.
C4_Witness ==
  /\ last.op = "approve"
  /\ last.code = 200
  /\ last.was = "approved"
  /\ \E u \in UserIds, c \in ClubIds : Count(joined[u], c) = 1

\* s without its i-th element
Without(s, i) == SubSeq(s, 1, i - 1) \o SubSeq(s, i + 1, Len(s))

\* C5: LeaveClub by a user who has a membership in the club removes exactly
\* one membership entry, keeping the others in their order, and removes the
\* club from the user's joinedClubs; a second LeaveClub by the same user on
\* the same club then fails with 400 'not a member'.
C5_LeaveRemovesOne ==
  \A c \in ClubIds, u \in UserIds :
    (clubs[c].exists /\ MembersOf(clubs, c, u) # {}) =>
      LET first == LeaveClub(clubs, joined, nextMid, c, u)
          second == LeaveClub(first.clubs, first.joined, first.nextMid, c, u)
      IN /\ first.code = 200
         /\ \E i \in MembersOf(clubs, c, u) :
              first.clubs[c].members = Without(clubs[c].members, i)
         /\ c \notin Range(first.joined[u])
         /\ \A d \in ClubIds \ {c} : first.clubs[d] = clubs[d]
         /\ \A v \in UserIds \ {u} : first.joined[v] = joined[v]
         /\ second.code = 400
         /\ second.msg = "You are not a member of this club"
         /\ second.clubs = first.clubs
         /\ second.joined = first.joined

\* The user who has just left a club asked to leave it again and was refused.
C5_Witness ==
  /\ last.op = "leave"
  /\ last.again
  /\ last.code = 400
  /\ last.msg = "You are not a member of this club"
  /\ clubs[last.c].exists

\* C6: between requests the two sides of the membership record agree: a club
\* is in a user's joinedClubs if and only if the club exists and holds an
\* approved membership of that user.
C6_BothSidesAgree ==
  \A u \in UserIds, c \in ClubIds :
    c \in Range(joined[u]) <=>
      (clubs[c].exists /\ \E i \in MembersOf(clubs, c, u) : clubs[c].members[i].status = "approved")

Unchanged(r) == r.clubs = clubs /\ r.joined = joined /\ r.nextMid = nextMid

DomainError(r) == r.code \in {400, 404}

\* C8: whenever RequestJoin, ApproveMember, RejectMember or LeaveClub answers
\* with a domain error (400 or 404), it has written nothing: every club's
\* member list and every user's joinedClubs are as before the call.
C8_ErrorsWriteNothing ==
  /\ \A c \in ClubIds, u \in UserIds, body \in Bodies :
       LET r == RequestJoin(clubs, joined, nextMid, c, u, body)
       IN DomainError(r) => Unchanged(r)
  /\ \A c \in ClubIds, m \in MemberIds :
       LET r == ApproveMember(clubs, joined, nextMid, c, m)
       IN DomainError(r) => Unchanged(r)
  /\ \A c \in ClubIds, m \in MemberIds :
       LET r == RejectMember(clubs, joined, nextMid, c, m)
       IN DomainError(r) => Unchanged(r)
  /\ \A c \in ClubIds, u \in UserIds :
       LET r == LeaveClub(clubs, joined, nextMid, c, u)
       IN DomainError(r) => Unchanged(r)

\* A user who is an approved member of a club asked to join it again and got
\* 400, in a store that has memberships and joinedClubs entries to lose.
C8_Witness ==
  /\ last.op = "join"
  /\ last.code = 400
  /\ last.msg = "You are already a member of this club"
  /\ \E c \in ClubIds : clubs[c].exists /\ Len(clubs[c].members) > 0
  /\ \E u \in UserIds : joined[u] # <<>>

\* C9: RejectMember on an existing membership sets its status to rejected and
\* changes nothing else: no user's joinedClubs, no other membership, no
\* other club.
C9_RejectFrame ==
  \A c \in ClubIds, m \in MemberIds :
    (clubs[c].exists /\ membersId(clubs[c].members, m) # 0) =>
      LET i == membersId(clubs[c].members, m)
          r == RejectMember(clubs, joined, nextMid, c, m)
      IN /\ r.code = 200
         /\ r.clubs[c].members[i].status = "rejected"
         /\ r.clubs[c].members[i].id = m
         /\ r.clubs[c].members[i].user = clubs[c].members[i].user
         /\ Len(r.clubs[c].members) = Len(clubs[c].members)
         /\ \A j \in 1..Len(clubs[c].members) :
              j # i => r.clubs[c].members[j] = clubs[c].members[j]
         /\ r.clubs[c].status = clubs[c].status
         /\ r.clubs[c].name = clubs[c].name
         /\ \A d \in ClubIds \ {c} : r.clubs[d] = clubs[d]
         /\ r.joined = joined

\* A membership was rejected while its user had the club in joinedClubs.
C9_Witness ==
  /\ last.op = "reject"
  /\ last.code = 200
  /\ last.was = "approved"
  /\ \E u \in UserIds : joined[u] # <<>>

Position(members, member) == CHOOSE i \in 1..Len(members) : members[i] = member

\* C10: ListPendingRequests returns exactly the memberships of the club whose
\* status is pending, each once, in the order of the member list (the order
\* in which they were appended).
C10_PendingInOrder ==
  \A c \in ClubIds :
    clubs[c].exists =>
      LET members == clubs[c].members
          r == ListPendingRequests(clubs, c)
      IN /\ r.code = 200
         /\ \A k \in 1..Len(r.requests) :
              r.requests[k].status = "pending" /\ r.requests[k] \in Range(members)
         /\ \A i \in 1..Len(members) :
              members[i].status = "pending" => members[i] \in Range(r.requests)
         /\ \A k, l \in 1..Len(r.requests) :
              k < l => Position(members, r.requests[k]) < Position(members, r.requests[l])

\* The join requests of a club whose member list holds an approved membership
\* followed by a pending one were listed.
C10_Witness ==
  /\ last.op = "list"
  /\ last.code = 200
  /\ Len(clubs[last.c].members) = 2
  /\ clubs[last.c].members[1].status = "approved"
  /\ clubs[last.c].members[2].status = "pending"

\* The store the call-by-call runs start from is one the handlers produce.
InitStepsReached ==
  /\ clubs[1].exists
  /\ clubs[1].status = "active"
  /\ Len(clubs[1].members) = 2
  /\ \A i \in 1..2 : clubs[1].members[i] = [id |-> i, user |-> ObjectId(i), status |-> "pending"]
  /\ \A u \in UserIds : joined[u] = <<>>
  /\ nextMid = 3
  /\ nextClub = 2
  /\ last.op = "join"
  /\ last.code = 200

\* C7: each logical transition is a single document write: no state that
\* another request can observe, and no state left behind by a call that
\* failed, has the club's member list already changed by an ApproveMember or
\* a LeaveClub while the user's joinedClubs is not yet changed accordingly.
C7_SingleDocumentWrite ==
  \A r \in ReqIds :
    reqs[r].pc \in {"saved", "caught_after_save"} =>
      IF reqs[r].op = "approve"
      THEN reqs[r].c \in Range(joined[reqs[r].u])
      ELSE reqs[r].c \notin Range(joined[reqs[r].u])

\* ------------------------------------------------- properties of elections
isAdministrator(user) == user.isAdmin \/ user.role = "admin"

CandidatesOf(e) == 1..Len(elections[e].candidates)

\* C11: once a vote of user u in election e has succeeded, so that e is in
\* the votedElections of u's record, every later vote of u in e, for the same
\* or another candidate, from the same page or from a page loaded again,
\* fails: the page refuses it itself or the server answers 409 Conflict.
\* Every candidate's votes and totalVotes stay as they were.
C11_SecondVoteConflicts ==
  \A u \in UserIds, e \in ElectionIds, net \in BOOLEAN :
    \A c \in CandidatesOf(e), pv \in {votedElections[u], {}} :
      e \in userVotedElections[u] =>
        LET r == handleVote(elections, userVotedElections, pv, newElection, Account(u), e, c, net)
        IN /\ r.elections = elections
           /\ r.voted = userVotedElections
           /\ r.toast \in {"You have already voted in this election", "Failed to cast vote"}
           /\ (r.sent /\ net) => r.code = 409

\* The server has just refused, with 409, a second vote of a user whose first
\* vote was counted.
C11_Witness ==
  /\ last.op = "vote" /\ last.code = 409
  /\ last.c \in userVotedElections[last.u]
  /\ elections[last.c].totalVotes >= 1

\* C13: in every state, from creation through the votes to the announcement,
\* totalVotes of an election is the sum of its candidates' votes; a
\* successful vote raises the votes of exactly one candidate, the one voted
\* for, and totalVotes by one, and touches no other election.
C13_TotalIsSum ==
  /\ \A e \in ElectionIds :
       elections[e].exists => elections[e].totalVotes = Sum(elections[e].candidates)
  /\ \A u \in UserIds, e \in ElectionIds, c \in CandidateIds, net \in BOOLEAN :
       LET r == handleVote(elections, userVotedElections, votedElections[u],
                           newElection, Account(u), e, c, net)
       IN r.code = 200 =>
            /\ r.elections[e].totalVotes = elections[e].totalVotes + 1
            /\ r.elections[e].candidates =
                 [elections[e].candidates EXCEPT ![c].votes = @ + 1]
            /\ \A other \in ElectionIds \ {e} : r.elections[other] = elections[other]

\* The results of an election in which both users voted have been announced.
C13_Witness ==
  /\ last.op = "announce" /\ last.code = 200
  /\ elections[last.c].status = "Completed"
  /\ elections[last.c].totalVotes = 2

\* C14: submitting the form with fewer than two candidates shows the
\* validation error, sends no request and creates no election.  With two or
\* more candidates an administrator's request that reaches the server creates
\* the election, and a created election has totalVotes 0, votes 0 for every
\* candidate and status Pending.
C14_TwoCandidatesOrNothing ==
  \A user \in Accounts, net \in BOOLEAN :
    nextElection <= MaxElections =>
      LET r == handleCreateElection(elections, userVotedElections, {}, newElection,
                                    user, nextElection, net)
          created == r.elections[nextElection]
      IN /\ Len(newElection.candidates) < 2 =>
              /\ ~r.sent
              /\ r.elections = elections
              /\ r.toast = "At least two candidates are required"
         /\ (Len(newElection.candidates) >= 2 /\ isAdministrator(user) /\ net) => r.code = 201
         /\ r.code = 201 =>
              /\ created.exists
              /\ created.status = "Pending"
              /\ created.totalVotes = 0
              /\ Len(created.candidates) = Len(newElection.candidates)
              /\ \A i \in 1..Len(created.candidates) : created.candidates[i].votes = 0
              /\ \A other \in ElectionIds \ {nextElection} : r.elections[other] = elections[other]

\* A first election was created with two candidates; the form then submitted
\* with one candidate was refused without a request.
C14_Witness ==
  /\ elections[1].exists /\ elections[1].status = "Pending"
  /\ Len(elections[1].candidates) = 2
  /\ ~elections[2].exists
  /\ last.op = "create" /\ last.msg = "At least two candidates are required"
  /\ ~last.again
  /\ Len(newElection.candidates) = 1

\* C15: for a requester who is not an administrator announceResults sends no
\* request and changes nothing; whoever announces, no candidate's votes and
\* no totalVotes change, and announcing again leaves the election as the
\* first announcement left it.
C15_AnnounceAdminOnly ==
  \A user \in Accounts, e \in ElectionIds, net \in BOOLEAN :
    LET r == announceResults(elections, userVotedElections, {}, newElection, user, e, net)
        again == announceResults(r.elections, r.voted, {}, newElection, user, e, net)
    IN /\ ~isAdministrator(user) =>
            /\ ~r.sent
            /\ r.elections = elections
            /\ r.voted = userVotedElections
       /\ \A any \in ElectionIds :
            /\ r.elections[any].totalVotes = elections[any].totalVotes
            /\ r.elections[any].candidates = elections[any].candidates
       /\ again.elections = r.elections

\* The administrator has announced, a second time, the results of an
\* election in which a vote was cast.
C15_Witness ==
  /\ last.op = "announce" /\ last.code = 200 /\ last.was = "Completed"
  /\ elections[last.c].status = "Completed"
  /\ elections[last.c].totalVotes >= 1

\* The start of the call-by-call votes is a state the page reaches.
InitVoteStepsReached ==
  ~(/\ elections[1] = [exists |-> TRUE, status |-> "Pending", totalVotes |-> 0,
                       candidates |-> <<[votes |-> 0], [votes |-> 0]>>]
    /\ ~elections[2].exists
    /\ nextElection = 2
    /\ newElection = EmptyForm
    /\ last = Last("create", 201, "Election created successfully!", 0, 1, "", TRUE))

\* C12: whatever the interleaving of the vote requests, when all of them
\* have been answered an election counts at most one vote for each account
\* that voted in it: totalVotes is at most the number of users whose
\* votedElections holds the election.
C12_AtMostOneCounted ==
  (\A r \in ReqIds : reqs[r].pc = "idle") =>
    \A e \in ElectionIds :
      elections[e].totalVotes <= Cardinality({u \in UserIds : e \in userVotedElections[u]})

MemberWithId(c, memberId) ==
  {i \in 1..Len(clubs[c].members) : clubs[c].members[i].id = memberId}

C17_NamesUniqueIgnoringCase ==
  \A c, d \in ClubIds :
    (c # d /\ clubs[c].exists /\ clubs[d].exists) =>
      toLowerCase(clubs[c].name) # toLowerCase(clubs[d].name)

ActiveClubs == {c \in ClubIds : clubs[c].exists /\ clubs[c].status = "active"}

\* C18: for a visitor or an account that is not an administrator, GET /
\* lists active clubs only, whatever status the query asks for, and GET /:id
\* of a club that is not active answers 404 "Club not found", the very
\* answer given for a club that does not exist.
C18_OnlyActiveVisible ==
  \A user \in Accounts :
    ~user.isAdmin =>
      /\ \A status \in ClubStatuses \cup {""} :
           GetClubs(clubs, user, status).clubs = ActiveClubs
      /\ \A c \in ClubIds :
           (clubs[c].exists /\ clubs[c].status # "active") =>
             /\ GetClub(clubs, user, c).code = 404
             /\ GetClub(clubs, user, c) = GetClub([clubs EXCEPT ![c] = NoClub], user, c)

\* A student asked for the inactive clubs while one club was inactive and
\* another active, and was listed the active one.
C18_Witness ==
  /\ last.op = "clubs" /\ last.u = 2 /\ last.was = "inactive" /\ last.c = 1
  /\ ActiveClubs # {}
  /\ \E c \in ClubIds : clubs[c].exists /\ clubs[c].status = "inactive"

\* ------------------------------------------------------ properties of users
Unique(us) ==
  \A a, b \in us :
    a # b => /\ a.username # b.username
             /\ a.email = "" \/ a.email # b.email

Seeded(i) == \E user \in users : user.username = SeedUsers[i].username

\* C19: a run of createDefaultAdmin that follows a completed run creates no
\* user and leaves the users as they are, whatever the store the first run
\* started from; and no run creates a user whose username or email a user
\* already has.
C19_SeedIdempotent ==
  LET once == createDefaultAdmin(users)
  IN /\ createDefaultAdmin(once) = once
     /\ (last.op = "seed" /\ last.again) => last.was = "same"
     /\ Unique(users)
     /\ Unique(once)

\* The server was started twice in a row on a store in which the first run
\* had work to do: it created the second sample student.  The second run
\* left the users unchanged.
C19_Witness ==
  /\ last.op = "seed" /\ last.again /\ last.was = "same"
  /\ Seeded(7)
  /\ createDefaultAdmin(users) = users

\* C20: when createDefaultAdmin has run on an empty store, the default
\* admin, the four additional admins and the two sample students all exist,
\* and each of the seven passes the validation of the User schema.
C20_AllSeedsExist ==
  (last.op = "seed" /\ last.u = 0) =>
    \A i \in 1..Len(SeedUsers) : Seeded(i) /\ validates(SeedUsers[i])

\* C21: the fifth POST /login in a row that fails the password check, counted
\* from loginAttempts = 0, sets lockUntil to the time of that request plus
\* two hours, and the four before it set no lock; as long as lockUntil lies
\* in the future, POST /login for the account answers 423 for the right
\* password and for a wrong one, carries no token and leaves the account,
\* loginAttempts included, as it is.
C21_LockedAfterFiveFailures ==
  /\ (last.op = "login" /\ last.msg = "Invalid credentials" /\ last.was = "zero") =>
       /\ last.c < MaxLoginAttempts =>
            (account.lockUntil = Unset /\ account.loginAttempts = last.c)
       /\ last.c = MaxLoginAttempts =>
            (account.lockUntil = last.u + LockTime /\ account.loginAttempts = MaxLoginAttempts)
  /\ isLocked(account, now) =>
       \A password \in Passwords :
         LET r == Login(account, now, account.username, password)
         IN r.code = 423 /\ ~r.token /\ r.user = account

\* A request is answered 423 one millisecond before the lock that the fifth
\* failure set ends.
C21_Witness ==
  /\ last.op = "login" /\ last.code = 423 /\ last.u = LockTime
  /\ account.loginAttempts = MaxLoginAttempts
  /\ account.lockUntil = LockTime + 1
  /\ now = LockTime

\* C22: a failed password check that finds an expired lock (lockUntil set and
\* before the time of the request) sets loginAttempts to 1 and unsets
\* lockUntil; the failures that follow it in a row count on from there, the
\* account stays unlocked up to the fourth and the fifth sets lockUntil two
\* hours ahead; a successful login leaves loginAttempts = 0 and lockUntil
\* unset.
C22_ExpiredLockRestartsCount ==
  /\ (last.op = "login" /\ last.msg = "Invalid credentials" /\ last.was = "expired") =>
       /\ last.c <= MaxLoginAttempts => account.loginAttempts = last.c
       /\ last.c < MaxLoginAttempts =>
            (account.lockUntil = Unset /\ ~isLocked(account, now))
       /\ last.c = MaxLoginAttempts => account.lockUntil = last.u + LockTime
  /\ (last.op = "login" /\ last.code = 200) =>
       (account.loginAttempts = 0 /\ account.lockUntil = Unset)
  /\ \A password \in Passwords :
       LET r == Login(account, now, account.username, password)
       IN /\ (r.code = 401 /\ account.isActive /\ account.lockUntil # Unset /\ account.lockUntil < now) =>
               (r.user.loginAttempts = 1 /\ r.user.lockUntil = Unset)
          /\ r.code = 200 => (r.user.loginAttempts = 0 /\ r.user.lockUntil = Unset)

\* The fifth failure after an expired lock has locked the account again.
C22_Witness ==
  /\ last.op = "login" /\ last.msg = "Invalid credentials" /\ last.was = "expired"
  /\ last.c = MaxLoginAttempts
  /\ isLocked(account, now)

\* C23: POST /admin-register with a username and an email that no stored user
\* has answers 201 and stores one more user.
C23_AdminRegistered ==
  (last.op = "admin-register" /\ last.was = "new") => (last.code = 201 /\ last.c = last.u + 1)

\* C24: no successful approve finds the membership rejected, and no
\* successful reject finds it approved: a membership leaves pending once and
\* keeps the status it then got.
C24_DecidedOnce ==
  /\ ~(last.op = "approve" /\ last.code = 200 /\ last.was = "rejected")
  /\ ~(last.op = "reject" /\ last.code = 200 /\ last.was = "approved")

\* C25: however concurrent POST /login requests interleave, loginAttempts
\* never exceeds 5, and it is never 5 or more while lockUntil is unset.
C25_AttemptsBounded ==
  /\ account.loginAttempts <= MaxLoginAttempts
  /\ account.loginAttempts >= MaxLoginAttempts => account.lockUntil # Unset

\* C26: a response of POST /login or POST /admin-login that carries a token
\* is sent for an account that is active and, at the time of the response,
\* not locked.
C26_NoTokenWhenLockedOrInactive ==
  (last.op \in {"login", "admin-login"} /\ last.again) =>
    (account.isActive /\ ~isLocked(account, last.u))

\* C27: every user that POST /register stored has role student and isAdmin
\* false, whatever role and isAdmin its body held; and no PUT /profile and
\* no PUT /change-password changes the role, isAdmin, joinedClubs or
\* votedElections of the account that sends it or any field of another user.
C27_ProfileKeepsRoleAndLists ==
  /\ [](\A user \in users : user.role = "student" /\ ~user.isAdmin)
  /\ [][/\ account'.role = account.role
        /\ account'.isAdmin = account.isAdmin
        /\ account'.joinedClubs = account.joinedClubs
        /\ account'.votedElections = account.votedElections
        /\ joined' = joined
        /\ userVotedElections' = userVotedElections
        /\ users \subseteq users']_vars

\* The student who joined a club and voted has changed year and password
\* through bodies that asked for the admin role, next to a user registered
\* with a body that asked for it too.
C27_Witness ==
  /\ last.op = "profile" /\ last.code = 200 /\ last.was = "admin" /\ last.again
  /\ account.year = "2nd Year"
  /\ account.password = "student123"
  /\ account.joinedClubs = <<1>>
  /\ users # {}

\* C28: the club id that the Approve and Reject buttons of the join-requests
\* dialog give to approveClubMember / rejectClubMember is the club id last
\* passed to fetchJoinRequests.
C28_DecidesTheFetchedClub ==
  last.op \in {"ui-approve", "ui-reject"} => last.c = last.u

\* C30: when the page reports to the administrator that a club or an
\* election was deleted, a delete request has been sent and the club or
\* election is no longer stored, so that the next fetch does not list it.
C30_DeletedWhenReported ==
  /\ (last.op = "ui-delete-club" /\ last.msg = "Club deleted successfully!") =>
       (last.again /\ ~clubs[last.c].exists /\ last.c \notin GetClubs(clubs, Account(1), "").clubs)
  /\ (last.op = "ui-delete-election" /\ last.msg = "Election deleted successfully!") =>
       (last.again /\ ~elections[last.c].exists)

\* C29: also when a delete and an approve of the same club interleave, no
\* user's joinedClubs holds a club that is no longer stored.
C29_NoJoinedClubWithoutClub ==
  \A u \in UserIds : \A i \in 1..Len(joined[u]) : clubs[joined[u][i]].exists

====
